---- MODULE Spec2Model ----
(***************************************************************************)
(* CEL-lite (src/unnamed/part_003): lexer, recursive-descent parser and    *)
(* tree-walking evaluator, modelled as a state machine.                    *)
(*                                                                         *)
(* compileCel is a sequence of steps of the Parser: the recursion of the  *)
(* parse functions is the variable `pstack` (one activation per active     *)
(* parse function), `parser` is the Parser object.  An eval/explain call   *)
(* is a sequence of steps of evalExpr: its recursion is the variable       *)
(* `stack` (one frame per active evalExpr call), `st` is the EvalState     *)
(* object of the call in progress.                                         *)
(*                                                                         *)
(* JavaScript values are tagged records (field t is the tag).  Numbers are *)
(* the integers plus NaN: every number literal of the modelled sources has *)
(* an all-zero fractional part.  Source positions are 0-based, as in JS.   *)
(***************************************************************************)
EXTENDS Integers, Sequences, FiniteSets, TLC

VARIABLES
    source,   \* the text handed to compileCel
    opts,     \* the CelOptions handed to compileCel
    prog,     \* the CelProgram object (NoProgram before compileCel returns)
    compiled, \* compileCel: Pending, "parsing", the program returned or the error thrown
    parser,   \* the Parser object compileCel constructed
    pstack,   \* active parse functions, innermost last
    ctx,      \* the caller's context object of the call in progress / last call
    snapshot, \* the caller's copy of ctx taken before the call
    mode,     \* "idle", "eval" or "explain"
    st,       \* EvalState of the call in progress (callDepth, opts, trace)
    stack,    \* active evalExpr invocations, innermost last
    done,     \* the evalExpr invocation that finished last, and how
    calls     \* the caller's log of finished calls: [mode, ctx, outcome]

vars ==
    <<source, opts, prog, compiled, parser, pstack, ctx, snapshot, mode, st, stack,
      done, calls>>

(* ------------------------------- JS values ----------------------------- *)

Undefined == [t |-> "undefined"]
Null == [t |-> "null"]
NaN == [t |-> "nan"]
Bool(b) == [t |-> "boolean", v |-> b]
Num(n) == [t |-> "number", v |-> n]
Str(s) == [t |-> "string", v |-> s]
Arr(s) == [t |-> "array", v |-> s]
Obj(f) == [t |-> "object", v |-> f]
\* a function object of the host runtime (reached through a prototype chain)
HostFn(name) == [t |-> "function", v |-> name]
\* Object.prototype itself
ObjectPrototype == [t |-> "hostobject", v |-> "Object.prototype"]

\* JS typeof
TypeOf(x) ==
    CASE x.t = "undefined" -> "undefined"
      [] x.t \in {"null", "array", "object", "hostobject"} -> "object"
      [] x.t \in {"number", "nan"} -> "number"
      [] OTHER -> x.t

IsNullish(x) == x.t \in {"undefined", "null"}
IsArray(x) == x.t = "array"

(* ------------------------------- CelError ------------------------------ *)

NoPos == -1
NoErr == [name |-> "none"]
\* new CelError(message, position)
CelError(message, position) ==
    [name |-> "CelError", message |-> message, position |-> position]
\* an exception of the host runtime that is not a CelError
HostError(name, message) ==
    [name |-> name, message |-> message, position |-> NoPos]

(* -------------------------------- Lexer -------------------------------- *)

Digits == {"0", "1", "2", "3", "4", "5", "6", "7", "8", "9"}
Letters ==
    {"a", "b", "c", "d", "e", "f", "g", "h", "i", "j", "k", "l", "m",
     "n", "o", "p", "q", "r", "s", "t", "u", "v", "w", "x", "y", "z",
     "A", "B", "C", "D", "E", "F", "G", "H", "I", "J", "K", "L", "M",
     "N", "O", "P", "Q", "R", "S", "T", "U", "V", "W", "X", "Y", "Z"}

\* src[i], "" standing for JS undefined (i past the end)
CharAt(src, i) == IF i >= 0 /\ i < Len(src) THEN SubSeq(src, i + 1, i + 1) ELSE ""
\* src.slice(a, b)
Slice(src, a, b) ==
    LET e == IF b > Len(src) THEN Len(src) ELSE b
    IN IF a >= e THEN "" ELSE SubSeq(src, a + 1, e)

isDigit(c) == c \in Digits
isIdentStart(c) == c \in Letters \/ c = "_"
isIdentPart(c) == isIdentStart(c) \/ isDigit(c)

NoValue == [t |-> "novalue"]
Token(type, text, pos, value) ==
    [type |-> type, text |-> text, pos |-> pos, value |-> value]
\* what Lexer.next() hands back: the token (or the error thrown) and this.i
LexOk(tok, i) == [tok |-> tok, i |-> i, err |-> NoErr]
LexThrow(e, i) == [tok |-> Token("eof", "", i, NoValue), i |-> i, err |-> e]

RECURSIVE skipWs(_, _)
skipWs(src, i) ==
    IF i < Len(src) /\ CharAt(src, i) \in {" ", "\t", "\n", "\r"}
    THEN skipWs(src, i + 1)
    ELSE i

take1(src, i, type) == LexOk(Token(type, CharAt(src, i), i, NoValue), i + 1)
take2(src, i, type) == LexOk(Token(type, Slice(src, i, i + 2), i, NoValue), i + 2)
peek(src, i, s) == Slice(src, i, i + Len(s)) = s

\* the loop of readString: i is this.i, out the decoded text so far
RECURSIVE readStringLoop(_, _, _, _, _)
readStringLoop(src, quote, pos, i, out) ==
    IF i >= Len(src) THEN LexThrow(CelError("Unterminated string", pos), i)
    ELSE LET c == CharAt(src, i) IN
         IF c = quote
         THEN LexOk(Token("string", Slice(src, pos, i + 1), pos, Str(out)), i + 1)
         ELSE IF c = "\\"
         THEN LET n == CharAt(src, i + 1) IN
              CASE n = "n" -> readStringLoop(src, quote, pos, i + 2, out \o "\n")
                [] n = "r" -> readStringLoop(src, quote, pos, i + 2, out \o "\r")
                [] n = "t" -> readStringLoop(src, quote, pos, i + 2, out \o "\t")
                [] n \in {"\\", "'", "\""} ->
                       readStringLoop(src, quote, pos, i + 2, out \o n)
                [] OTHER ->
                       \* past the end n is undefined, which the template prints
                       LexThrow(CelError("Invalid escape \\"
                                           \o (IF n = "" THEN "undefined" ELSE n), i),
                                i + 2)
         ELSE readStringLoop(src, quote, pos, i + 1, out \o c)

readString(src, i) == readStringLoop(src, CharAt(src, i), i, i + 1, "")

\* index after the run of digits starting at i
RECURSIVE digitsEnd(_, _)
digitsEnd(src, i) ==
    IF i < Len(src) /\ isDigit(CharAt(src, i)) THEN digitsEnd(src, i + 1) ELSE i

DigitVal(c) ==
    CASE c = "0" -> 0 [] c = "1" -> 1 [] c = "2" -> 2 [] c = "3" -> 3
      [] c = "4" -> 4 [] c = "5" -> 5 [] c = "6" -> 6 [] c = "7" -> 7
      [] c = "8" -> 8 [] c = "9" -> 9

\* value of a run of decimal digits
RECURSIVE DigitsToInt(_)
DigitsToInt(s) ==
    IF Len(s) = 0 THEN 0
    ELSE DigitsToInt(SubSeq(s, 1, Len(s) - 1)) * 10 + DigitVal(SubSeq(s, Len(s), Len(s)))

\* Number(s) for the text readNumber collects: [-]digits[.digits]; the
\* fractional digits of the modelled sources are zeros
NumberOfLiteral(s) ==
    LET neg == CharAt(s, 0) = "-"
        a == IF neg THEN 1 ELSE 0
        b == digitsEnd(s, a)
        n == DigitsToInt(Slice(s, a, b))
    IN IF neg THEN 0 - n ELSE n

readNumber(src, i) ==
    LET a == IF CharAt(src, i) = "-" THEN i + 1 ELSE i
        b == digitsEnd(src, a)
        c == IF CharAt(src, b) = "." THEN digitsEnd(src, b + 1) ELSE b
        s == Slice(src, i, c)
    IN LexOk(Token("number", s, i, Num(NumberOfLiteral(s))), c)

RECURSIVE identEnd(_, _)
identEnd(src, i) ==
    IF i < Len(src) /\ isIdentPart(CharAt(src, i)) THEN identEnd(src, i + 1) ELSE i

readIdent(src, i) ==
    LET e == identEnd(src, i)
        s == Slice(src, i, e)
    IN CASE s = "true" -> LexOk(Token("true", s, i, Bool(TRUE)), e)
         [] s = "false" -> LexOk(Token("false", s, i, Bool(FALSE)), e)
         [] s = "null" -> LexOk(Token("null", s, i, Null), e)
         [] s = "in" -> LexOk(Token("in", s, i, NoValue), e)
         [] OTHER -> LexOk(Token("ident", s, i, Str(s)), e)

\* Lexer.next() with this.i = i0
LexNext(src, i0) ==
    LET i == skipWs(src, i0)
        ch == CharAt(src, i)
    IN IF i >= Len(src) THEN LexOk(Token("eof", "", i, NoValue), i)
       ELSE CASE ch = "(" -> take1(src, i, "lparen")
              [] ch = ")" -> take1(src, i, "rparen")
              [] ch = "[" -> take1(src, i, "lbrack")
              [] ch = "]" -> take1(src, i, "rbrack")
              [] ch = "," -> take1(src, i, "comma")
              [] ch = "." -> take1(src, i, "dot")
              [] ch = "+" -> take1(src, i, "plus")
              [] ch = "?" -> take1(src, i, "question")
              [] ch = ":" -> take1(src, i, "colon")
              [] ch = "!" -> IF peek(src, i, "!=") THEN take2(src, i, "neq")
                             ELSE take1(src, i, "bang")
              [] ch = "&" /\ peek(src, i, "&&") -> take2(src, i, "andand")
              [] ch = "|" /\ peek(src, i, "||") -> take2(src, i, "oror")
              [] ch = "=" /\ peek(src, i, "==") -> take2(src, i, "eqeq")
              [] ch = "<" -> IF peek(src, i, "<=") THEN take2(src, i, "lte")
                             ELSE take1(src, i, "lt")
              [] ch = ">" -> IF peek(src, i, ">=") THEN take2(src, i, "gte")
                             ELSE take1(src, i, "gt")
              [] ch \in {"'", "\""} -> readString(src, i)
              [] isDigit(ch) \/ (ch = "-" /\ isDigit(CharAt(src, i + 1))) ->
                     readNumber(src, i)
              [] isIdentStart(ch) -> readIdent(src, i)
              [] OTHER -> LexThrow(CelError("Unexpected character '" \o ch \o "'", i), i)

(* -------------------------------- Parser -------------------------------- *)

NoExpr == [kind |-> "none"]

\* new Parser(source, maxNodes): the constructor reads the first token.  err
\* holds the CelError thrown while the parser ran, NoErr while none was.
NewParser(src, maxNodes) ==
    LET r == LexNext(src, 0)
    IN [src |-> src, i |-> r.i, cur |-> r.tok, nodeCount |-> 0, nextId |-> 1,
        maxNodes |-> maxNodes, err |-> r.err]

\* this.cur = this.lex.next(); nothing runs after a throw
Advance(p) ==
    LET r == LexNext(p.src, p.i)
    IN IF p.err # NoErr THEN p
       ELSE IF r.err # NoErr THEN [p EXCEPT !.err = r.err]
       ELSE [p EXCEPT !.cur = r.tok, !.i = r.i]

check(p, type) == p.cur.type = type

match(p, type) ==
    IF p.cur.type = type THEN [p |-> Advance(p), hit |-> TRUE]
    ELSE [p |-> p, hit |-> FALSE]

expect(p, type) ==
    IF p.err = NoErr /\ p.cur.type # type
    THEN [p |-> [p EXCEPT !.err = CelError("Expected " \o type \o " but got " \o p.cur.type,
                                          p.cur.pos)],
          tok |-> p.cur]
    ELSE [p |-> Advance(p), tok |-> p.cur]

\* prevPos() returns this.cur.pos: the token after the one just matched
prevPos(p) == p.cur.pos

TooComplex(maxNodes) ==
    CelError("Expression too complex (>" \o ToString(maxNodes) \o " nodes)", NoPos)

\* a cap checked with >= instead of >
nodeCappedEarly(p, n) ==
    IF p.err # NoErr THEN [p |-> p, e |-> NoExpr]
    ELSE IF p.nodeCount + 1 >= p.maxNodes
    THEN [p |-> [p EXCEPT !.nodeCount = @ + 1, !.err = TooComplex(p.maxNodes)],
          e |-> NoExpr]
    ELSE [p |-> [p EXCEPT !.nodeCount = @ + 1, !.nextId = p.nextId + 1],
          e |-> n @@ [id |-> p.nextId]]

\* a node that takes the next id without advancing it
nodeReusingId(p, n) ==
    LET c == p.nodeCount + 1
    IN IF p.err # NoErr THEN [p |-> p, e |-> NoExpr]
       ELSE IF c > p.maxNodes
       THEN [p |-> [p EXCEPT !.nodeCount = c,
                             !.err = TooComplex(p.maxNodes)],
             e |-> NoExpr]
       ELSE [p |-> [p EXCEPT !.nodeCount = c],
             e |-> n @@ [id |-> p.nextId]]

\* Parser.node: count the node, enforce maxNodes, assign the next id
node(p, n) ==
    LET c == p.nodeCount + 1
    IN IF p.err # NoErr THEN [p |-> p, e |-> NoExpr]
       ELSE IF c > p.maxNodes
       THEN [p |-> [p EXCEPT !.nodeCount = c,
                             !.err = TooComplex(p.maxNodes)],
             e |-> NoExpr]
       ELSE [p |-> [p EXCEPT !.nodeCount = c, !.nextId = p.nextId + 1],
             e |-> n @@ [id |-> p.nextId]]

\* operator texts with = for the equality token
OpTextSingleEquals(type) ==
    CASE type = "oror" -> "||" [] type = "andand" -> "&&"
      [] type = "eqeq" -> "=" [] type = "neq" -> "!=" [] type = "in" -> "in"
      [] type = "lt" -> "<" [] type = "lte" -> "<=" [] type = "gt" -> ">"
      [] type = "gte" -> ">=" [] type = "plus" -> "+"

\* the operator text of a binary-operator token
OpText(type) ==
    CASE type = "oror" -> "||" [] type = "andand" -> "&&"
      [] type = "eqeq" -> "==" [] type = "neq" -> "!=" [] type = "in" -> "in"
      [] type = "lt" -> "<" [] type = "lte" -> "<=" [] type = "gt" -> ">"
      [] type = "gte" -> ">=" [] type = "plus" -> "+"

\* the value of an identifier token
IdentName(tok) == IF tok.type = "ident" THEN tok.value.v ELSE ""

\* The parse functions call each other recursively; the model keeps their
\* activations on pstack.  An activation f records where the function stands
\* (pc), its locals (left/expr, op, pos, the args/items list) and ret, what
\* the parse function it called last returned.
Activation(fn) ==
    [fn |-> fn, pc |-> 0, left |-> NoExpr, op |-> "", pos |-> 0, list |-> <<>>,
     ret |-> NoExpr]

\* what one run of a parse function up to its next call or return does:
\* it calls parse function fn, returns e, or goes round its loop
Call(p, f, fn) == [kind |-> "call", p |-> p, f |-> f, fn |-> fn]
Return(p, e) == [kind |-> "return", p |-> p, e |-> e]
ReturnNode(n) == [kind |-> "return", p |-> n.p, e |-> n.e]
LoopNode(f, n) == [kind |-> "loop", p |-> n.p, f |-> [f EXCEPT !.pc = 1, !.ret = n.e]]

parsePrimary(p, f) ==
    CASE f.pc = 0 ->
           (CASE p.cur.type \in {"number", "string", "true", "false", "null"} ->
                   ReturnNode(node(match(p, p.cur.type).p,
                                   [kind |-> "lit", value |-> p.cur.value,
                                    pos |-> p.cur.pos]))
              [] p.cur.type = "ident" ->
                   ReturnNode(node(match(p, "ident").p,
                                   [kind |-> "ident", name |-> IdentName(p.cur),
                                    pos |-> p.cur.pos]))
              [] p.cur.type = "lparen" ->
                   Call(match(p, "lparen").p, [f EXCEPT !.pc = 1], "parseTernary")
              [] p.cur.type = "lbrack" ->
                   LET m == match(p, "lbrack") IN
                   IF check(m.p, "rbrack")
                   THEN ReturnNode(node(expect(m.p, "rbrack").p,
                                        [kind |-> "array", items |-> <<>>,
                                         pos |-> p.cur.pos]))
                   ELSE Call(m.p, [f EXCEPT !.pc = 2, !.pos = p.cur.pos], "parseTernary")
              [] OTHER ->
                   Return([p EXCEPT !.err = CelError("Unexpected token " \o p.cur.type,
                                                     p.cur.pos)], NoExpr))
      [] f.pc = 1 -> Return(expect(p, "rparen").p, f.ret)
      [] f.pc = 2 ->
           IF check(p, "comma")
           THEN Call(match(p, "comma").p, [f EXCEPT !.list = Append(@, f.ret)],
                     "parseTernary")
           ELSE ReturnNode(node(expect(p, "rbrack").p,
                                [kind |-> "array", items |-> Append(f.list, f.ret),
                                 pos |-> f.pos]))

parsePostfix(p, f) ==
    CASE f.pc = 0 -> Call(p, [f EXCEPT !.pc = 1], "parsePrimary")
      [] f.pc = 1 ->
           (CASE check(p, "dot") ->
                   LET m == match(p, "dot")
                       x == expect(m.p, "ident")
                   IN LoopNode(f, node(x.p, [kind |-> "get", obj |-> f.ret,
                                             prop |-> IdentName(x.tok),
                                             pos |-> prevPos(m.p)]))
              [] check(p, "lbrack") ->
                   LET m == match(p, "lbrack") IN
                   Call(m.p, [f EXCEPT !.pc = 2, !.left = f.ret, !.pos = prevPos(m.p)],
                        "parseTernary")
              [] check(p, "lparen") ->
                   LET m == match(p, "lparen") IN
                   IF check(m.p, "rparen")
                   THEN LoopNode(f, node(expect(m.p, "rparen").p,
                                         [kind |-> "call", callee |-> f.ret,
                                          args |-> <<>>, pos |-> prevPos(m.p)]))
                   ELSE Call(m.p, [f EXCEPT !.pc = 3, !.left = f.ret, !.list = <<>>,
                                            !.pos = prevPos(m.p)], "parseTernary")
              [] OTHER -> Return(p, f.ret))
      [] f.pc = 2 ->
           LoopNode(f, node(expect(p, "rbrack").p,
                            [kind |-> "idx", obj |-> f.left, index |-> f.ret,
                             pos |-> f.pos]))
      [] f.pc = 3 ->
           IF check(p, "comma")
           THEN Call(match(p, "comma").p, [f EXCEPT !.list = Append(@, f.ret)],
                     "parseTernary")
           ELSE LoopNode(f, node(expect(p, "rparen").p,
                                 [kind |-> "call", callee |-> f.left,
                                  args |-> Append(f.list, f.ret), pos |-> f.pos]))

parseUnary(p, f) ==
    CASE f.pc = 0 ->
           LET m == match(p, "bang") IN
           IF m.hit THEN Call(m.p, [f EXCEPT !.pc = 1, !.pos = prevPos(m.p)], "parseUnary")
           ELSE Call(p, [f EXCEPT !.pc = 2], "parsePostfix")
      [] f.pc = 1 ->
           ReturnNode(node(p, [kind |-> "unary", op |-> "!", right |-> f.ret,
                               pos |-> f.pos]))
      [] f.pc = 2 -> Return(p, f.ret)

\* The five binary levels have one shape: parse an operand with the next
\* level, then loop while the current token is an operator of this level.
parseBinary(p, f, operand, tokens) ==
    CASE f.pc = 0 -> Call(p, [f EXCEPT !.pc = 1], operand)
      [] f.pc = 1 ->
           IF p.cur.type \in tokens
           THEN LET m == match(p, p.cur.type) IN
                Call(m.p, [f EXCEPT !.pc = 2, !.left = f.ret, !.op = OpText(p.cur.type),
                                    !.pos = prevPos(m.p)], operand)
           ELSE Return(p, f.ret)
      [] f.pc = 2 ->
           LoopNode(f, node(p, [kind |-> "bin", op |-> f.op, left |-> f.left,
                                right |-> f.ret, pos |-> f.pos]))

\* an && level that also takes ||
parseAndTakingOr(p, f) == parseBinary(p, f, "parseEquality", {"andand", "oror"})

parseAdd(p, f) == parseBinary(p, f, "parseUnary", {"plus"})
parseRel(p, f) == parseBinary(p, f, "parseAdd", {"lt", "lte", "gt", "gte"})
parseEquality(p, f) == parseBinary(p, f, "parseRel", {"eqeq", "neq", "in"})
parseAnd(p, f) == parseBinary(p, f, "parseEquality", {"andand"})
parseOr(p, f) == parseBinary(p, f, "parseAnd", {"oror"})

parseTernary(p, f) ==
    CASE f.pc = 0 -> Call(p, [f EXCEPT !.pc = 1], "parseOr")
      [] f.pc = 1 ->
           LET m == match(p, "question") IN
           IF m.hit
           THEN Call(m.p, [f EXCEPT !.pc = 2, !.left = f.ret, !.pos = prevPos(m.p)],
                     "parseTernary")
           ELSE Return(p, f.ret)
      [] f.pc = 2 ->
           Call(expect(p, "colon").p, [f EXCEPT !.pc = 3, !.list = <<f.ret>>],
                "parseTernary")
      [] f.pc = 3 ->
           ReturnNode(node(p, [kind |-> "ternary", cond |-> f.left,
                               thenExpr |-> f.list[1], elseExpr |-> f.ret,
                               pos |-> f.pos]))

\* Parser.parse
parse(p, f) ==
    CASE f.pc = 0 -> Call(p, [f EXCEPT !.pc = 1], "parseTernary")
      [] f.pc = 1 -> Return(expect(p, "eof").p, f.ret)

(* ------------------- JavaScript semantics the code relies on ------------- *)

Whitespace == {" ", "\t", "\n", "\r"}
LowerAlphabet == "abcdefghijklmnopqrstuvwxyz"
UpperAlphabet == "ABCDEFGHIJKLMNOPQRSTUVWXYZ"

\* position (1-based) of character c in alphabet a, 0 when absent
AlphaIndex(a, c) ==
    LET hits == {i \in 1..Len(a) : SubSeq(a, i, i) = c}
    IN IF hits = {} THEN 0 ELSE CHOOSE i \in hits : TRUE

RECURSIVE MapChars(_, _, _)
MapChars(s, from, to) ==
    IF Len(s) = 0 THEN ""
    ELSE LET c == SubSeq(s, 1, 1)
             k == AlphaIndex(from, c)
         IN (IF k = 0 THEN c ELSE SubSeq(to, k, k)) \o MapChars(Tail(s), from, to)

\* s.toLowerCase(), s.toUpperCase() (ASCII letters)
ToLowerCase(s) == MapChars(s, UpperAlphabet, LowerAlphabet)
ToUpperCase(s) == MapChars(s, LowerAlphabet, UpperAlphabet)

RECURSIVE TrimStart(_), TrimEnd(_)
TrimStart(s) ==
    IF Len(s) > 0 /\ SubSeq(s, 1, 1) \in Whitespace THEN TrimStart(Tail(s)) ELSE s
TrimEnd(s) ==
    IF Len(s) > 0 /\ SubSeq(s, Len(s), Len(s)) \in Whitespace
    THEN TrimEnd(SubSeq(s, 1, Len(s) - 1)) ELSE s
\* s.trim()
Trim(s) == TrimEnd(TrimStart(s))

\* s.startsWith(p), s.endsWith(p), s.includes(p)
StartsWith(s, p) == Len(p) <= Len(s) /\ Slice(s, 0, Len(p)) = p
EndsWith(s, p) == Len(p) <= Len(s) /\ Slice(s, Len(s) - Len(p), Len(s)) = p
Includes(s, p) ==
    Len(p) <= Len(s) /\ \E i \in 0..(Len(s) - Len(p)) : Slice(s, i, i + Len(p)) = p

\* index of the first occurrence of p in s at or after i (0-based), -1 if none
RECURSIVE IndexOfFrom(_, _, _)
IndexOfFrom(s, p, i) ==
    IF i + Len(p) > Len(s) THEN 0 - 1
    ELSE IF Slice(s, i, i + Len(p)) = p THEN i
    ELSE IndexOfFrom(s, p, i + 1)

RECURSIVE SplitChars(_), SplitOn(_, _)
SplitChars(s) ==
    IF Len(s) = 0 THEN <<>> ELSE <<SubSeq(s, 1, 1)>> \o SplitChars(Tail(s))
SplitOn(s, sep) ==
    LET k == IndexOfFrom(s, sep, 0)
    IN IF k < 0 THEN <<s>>
       ELSE <<Slice(s, 0, k)>> \o SplitOn(Slice(s, k + Len(sep), Len(s)), sep)
\* s.split(sep): a sequence of TLA+ strings
Split(s, sep) == IF Len(sep) = 0 THEN SplitChars(s) ELSE SplitOn(s, sep)

\* parts.join(sep) for a sequence of TLA+ strings
RECURSIVE JoinStrings(_, _)
JoinStrings(parts, sep) ==
    IF Len(parts) = 0 THEN ""
    ELSE IF Len(parts) = 1 THEN parts[1]
    ELSE parts[1] \o sep \o JoinStrings(Tail(parts), sep)

\* all characters of s are decimal digits
AllDigits(s) == \A i \in 1..Len(s) : SubSeq(s, i, i) \in Digits

\* String(n) for an integer n
IntToString(n) == ToString(n)

\* String(x)
RECURSIVE JsString(_)
JsString(x) ==
    CASE x.t = "undefined" -> "undefined"
      [] x.t = "null" -> "null"
      [] x.t = "nan" -> "NaN"
      [] x.t = "boolean" -> IF x.v THEN "true" ELSE "false"
      [] x.t = "number" -> IntToString(x.v)
      [] x.t = "string" -> x.v
      [] x.t = "array" ->
           \* Array.prototype.join(","): null and undefined elements give ""
           JoinStrings([i \in 1..Len(x.v) |->
                           IF IsNullish(x.v[i]) THEN "" ELSE JsString(x.v[i])], ",")
      [] x.t \in {"object", "hostobject"} -> "[object Object]"
      [] x.t = "function" -> "function " \o x.v \o "() { [native code] }"

\* Number(s) for a string: surrounding whitespace ignored, "" is 0, a decimal
\* literal [+-]digits[.zeros] is its value, anything else NaN
StringToNumber(s0) ==
    LET s == Trim(s0)
        signed == Len(s) > 0 /\ SubSeq(s, 1, 1) \in {"-", "+"}
        body == IF signed THEN Tail(s) ELSE s
        dot == IndexOfFrom(body, ".", 0)
        whole == IF dot < 0 THEN body ELSE Slice(body, 0, dot)
        frac == IF dot < 0 THEN "" ELSE Slice(body, dot + 1, Len(body))
    IN IF Len(s) = 0 THEN Num(0)
       ELSE IF Len(whole) + Len(frac) > 0 /\ AllDigits(whole) /\ AllDigits(frac)
       THEN Num(IF signed /\ SubSeq(s, 1, 1) = "-"
                THEN 0 - DigitsToInt(whole) ELSE DigitsToInt(whole))
       ELSE NaN

\* Number(x)
JsNumber(x) ==
    CASE x.t = "undefined" -> NaN
      [] x.t = "null" -> Num(0)
      [] x.t = "nan" -> NaN
      [] x.t = "boolean" -> Num(IF x.v THEN 1 ELSE 0)
      [] x.t = "number" -> x
      [] x.t = "string" -> StringToNumber(x.v)
      [] x.t \in {"array", "object", "hostobject", "function"} ->
           StringToNumber(JsString(x))

\* a < b on numbers; any comparison with NaN is false
NumLess(a, b) == a.t = "number" /\ b.t = "number" /\ a.v < b.v
NumLessEq(a, b) == a.t = "number" /\ b.t = "number" /\ a.v <= b.v
\* a + b on numbers
NumAdd(a, b) == IF a.t = "number" /\ b.t = "number" THEN Num(a.v + b.v) ELSE NaN

\* k is a canonical array index ("0", "1", "12", ...)
IsIndexKey(k) == Len(k) > 0 /\ AllDigits(k) /\ IntToString(DigitsToInt(k)) = k

\* Properties every object inherits from Object.prototype, and a few of the
\* members of the other built-in prototypes (the host runtime's, not the
\* program's: a representative selection)
ObjectProtoMembers ==
    {"constructor", "__proto__", "toString", "toLocaleString", "valueOf",
     "hasOwnProperty", "isPrototypeOf", "propertyIsEnumerable"}
ProtoMembers(cls) ==
    CASE cls = "Object" -> {}
      [] cls = "Array" -> {"join", "map", "push", "pop", "indexOf", "includes", "slice"}
      [] cls = "String" -> {"trim", "split", "indexOf", "includes", "slice", "toLowerCase"}
      [] cls = "Number" -> {"toFixed"}
      [] cls = "Boolean" -> {}
      [] cls = "Function" -> {"call", "apply", "bind"}

\* the built-in class whose prototype a value inherits from
ClassOf(x) ==
    CASE x.t = "object" -> "Object"
      [] x.t = "array" -> "Array"
      [] x.t = "string" -> "String"
      [] x.t \in {"number", "nan"} -> "Number"
      [] x.t = "boolean" -> "Boolean"
      [] x.t = "function" -> "Function"

\* a property found on the prototype chain of class cls
InheritedGet(cls, k) ==
    IF k = "constructor" THEN HostFn(cls)
    ELSE IF k = "__proto__" THEN [t |-> "hostobject", v |-> cls \o ".prototype"]
    ELSE IF k \in ProtoMembers(cls) THEN HostFn(cls \o ".prototype." \o k)
    ELSE IF k \in ObjectProtoMembers THEN HostFn("Object.prototype." \o k)
    ELSE Undefined

\* the own property names of a value (those a lookup finds before the prototype)
OwnKeys(x) ==
    CASE x.t = "object" -> DOMAIN x.v
      [] x.t = "array" -> {IntToString(i - 1) : i \in 1..Len(x.v)} \cup {"length"}
      [] x.t = "string" -> {IntToString(i - 1) : i \in 1..Len(x.v)} \cup {"length"}
      [] x.t = "function" -> {"name", "length"}
      [] x.t = "hostobject" -> ObjectProtoMembers
      [] OTHER -> {}

\* x[k] for a property name k and x neither null nor undefined: own property
\* first, then the prototype chain
JsGet(x, k) ==
    CASE x.t = "object" ->
           IF k \in DOMAIN x.v THEN x.v[k] ELSE InheritedGet("Object", k)
      [] x.t = "array" ->
           IF IsIndexKey(k) /\ DigitsToInt(k) < Len(x.v) THEN x.v[DigitsToInt(k) + 1]
           ELSE IF k = "length" THEN Num(Len(x.v))
           ELSE InheritedGet("Array", k)
      [] x.t = "string" ->
           IF IsIndexKey(k) /\ DigitsToInt(k) < Len(x.v)
           THEN Str(SubSeq(x.v, DigitsToInt(k) + 1, DigitsToInt(k) + 1))
           ELSE IF k = "length" THEN Num(Len(x.v))
           ELSE InheritedGet("String", k)
      [] x.t = "function" ->
           IF k = "name" THEN Str(x.v)
           ELSE IF k = "length" THEN Num(0)
           ELSE InheritedGet("Function", k)
      [] x.t = "hostobject" ->
           IF k = "__proto__" THEN Null
           ELSE IF k = "constructor" THEN HostFn("Object")
           ELSE IF k \in ObjectProtoMembers THEN HostFn("Object.prototype." \o k)
           ELSE Undefined
      [] OTHER -> InheritedGet(ClassOf(x), k)

\* the JS operator `k in x` for an object x: own or inherited property
JsIn(k, x) ==
    \/ k \in OwnKeys(x)
    \/ x.t # "hostobject" /\ InheritedGet(ClassOf(x), k) # Undefined

\* Object.keys(x): own enumerable property names
ObjectKeys(x) ==
    CASE x.t = "object" -> DOMAIN x.v
      [] x.t = "array" -> {IntToString(i - 1) : i \in 1..Len(x.v)}
      [] OTHER -> {}

\* a === b.  Arrays and mappings are compared by identity in JS; the model has
\* no identities, and deepEqual goes on to compare them structurally
StrictEquals(a, b) ==
    /\ a.t = b.t
    /\ a.t \notin {"nan", "array", "object"}
    /\ a = b

(* --------------------------- Regular expressions ------------------------- *)
(* new RegExp(re) for the patterns of the modelled sources: literal          *)
(* characters, "." and the anchors "^" (first) and "$" (last); and the       *)
(* patterns the host rejects with a SyntaxError.                             *)

RegexMeta == {"(", ")", "[", "]", "*", "+", "?", "\\", "{", "}", "|"}
CountChar(s, c) == Cardinality({i \in 1..Len(s) : SubSeq(s, i, i) = c})

\* patterns `new RegExp` throws on: unbalanced group, unterminated class,
\* nothing to repeat, trailing backslash
RegExpInvalid(re) ==
    \/ CountChar(re, "(") # CountChar(re, ")")
    \/ CountChar(re, "[") > CountChar(re, "]")
    \/ Len(re) > 0 /\ SubSeq(re, 1, 1) \in {"*", "+", "?"}
    \/ Len(re) > 0 /\ SubSeq(re, Len(re), Len(re)) = "\\"
       /\ (Len(re) = 1 \/ SubSeq(re, Len(re) - 1, Len(re) - 1) # "\\")

RegExpSupported(re) ==
    /\ \A i \in 1..Len(re) : SubSeq(re, i, i) \notin RegexMeta
    /\ \A i \in 2..Len(re) : SubSeq(re, i, i) # "^"
    /\ \A i \in 1..(Len(re) - 1) : SubSeq(re, i, i) # "$"

RegExpAnchoredStart(re) == Len(re) > 0 /\ SubSeq(re, 1, 1) = "^"
RegExpAnchoredEnd(re) == Len(re) > 0 /\ SubSeq(re, Len(re), Len(re)) = "$"
RegExpBody(re) ==
    Slice(re, IF RegExpAnchoredStart(re) THEN 1 ELSE 0,
              IF RegExpAnchoredEnd(re) THEN Len(re) - 1 ELSE Len(re))

\* the pattern matches s at offset i
RegExpMatchAt(re, s, i) ==
    LET body == RegExpBody(re) IN
    /\ i + Len(body) <= Len(s)
    /\ RegExpAnchoredStart(re) => i = 0
    /\ RegExpAnchoredEnd(re) => i + Len(body) = Len(s)
    /\ \A j \in 1..Len(body) :
          SubSeq(body, j, j) = "." \/ SubSeq(body, j, j) = SubSeq(s, i + j, i + j)

\* new RegExp(re).test(s)
RegExpTest(re, s) == \E i \in 0..Len(s) : RegExpMatchAt(re, s, i)

\* s.replace(new RegExp(re, "g"), repl), scanning from offset i
RECURSIVE RegExpReplaceFrom(_, _, _, _)
RegExpReplaceFrom(re, s, repl, i) ==
    IF i > Len(s) THEN ""
    ELSE IF RegExpMatchAt(re, s, i)
    THEN IF Len(RegExpBody(re)) = 0
         THEN repl \o CharAt(s, i) \o RegExpReplaceFrom(re, s, repl, i + 1)
         ELSE repl \o RegExpReplaceFrom(re, s, repl, i + Len(RegExpBody(re)))
    ELSE CharAt(s, i) \o RegExpReplaceFrom(re, s, repl, i + 1)

(* ------------------------------- Evaluation ------------------------------ *)

\* !!v
truthy(v) ==
    CASE v.t \in {"undefined", "null", "nan"} -> FALSE
      [] v.t = "boolean" -> v.v
      [] v.t = "number" -> v.v # 0
      [] v.t = "string" -> v.v # ""
      [] OTHER -> TRUE

\* a filter that forgets one of the three keys
isPoisonKeyTwoOnly(k) == k = "__proto__" \/ k = "constructor"

isPoisonKey(k) == k = "__proto__" \/ k = "constructor" \/ k = "prototype"

RECURSIVE deepEqual(_, _)
deepEqual(a, b) ==
    IF StrictEquals(a, b) THEN TRUE
    ELSE IF IsNullish(a) \/ IsNullish(b) THEN FALSE
    ELSE IF TypeOf(a) # TypeOf(b) THEN FALSE
    ELSE IF IsArray(a) /\ IsArray(b)
    THEN /\ Len(a.v) = Len(b.v)
         /\ \A i \in 1..Len(a.v) : deepEqual(a.v[i], b.v[i])
    ELSE IF TypeOf(a) = "object" /\ TypeOf(b) = "object"
    THEN /\ Cardinality(ObjectKeys(a)) = Cardinality(ObjectKeys(b))
         /\ \A k \in ObjectKeys(a) : deepEqual(JsGet(a, k), JsGet(b, k))
    ELSE FALSE

\* String(a), which prints null and undefined
StringOfAny(a) == JsString(a)

\* String(a ?? "")
StringOrEmpty(a) == IF IsNullish(a) THEN "" ELSE JsString(a)

add(a, b) ==
    IF TypeOf(a) = "string" \/ TypeOf(b) = "string"
    THEN Str(StringOrEmpty(a) \o StringOrEmpty(b))
    ELSE NumAdd(JsNumber(a), JsNumber(b))

inOp(needle, haystack) ==
    IF IsArray(haystack) THEN \E i \in 1..Len(haystack.v) : deepEqual(haystack.v[i], needle)
    ELSE IF TypeOf(haystack) = "string"
    THEN IF TypeOf(needle) = "string" THEN Includes(haystack.v, needle.v) ELSE FALSE
    ELSE IF truthy(haystack) /\ TypeOf(haystack) = "object"
    THEN JsIn(JsString(needle), haystack)
    ELSE FALSE

\* what a function hands back: a value, or the exception thrown
Ret(v) == [out |-> v, err |-> NoErr]
Throw(e) == [out |-> Undefined, err |-> e]

\* args[i] (0-based), undefined past the end
Arg(args, i) == IF i < Len(args) THEN args[i + 1] ELSE Undefined

AllowedFunctions ==
    {"exists", "has", "size", "first", "last", "collect", "lower", "upper", "trim",
     "contains", "containsAny", "startsWith", "endsWith", "matches", "regexReplace",
     "coalesce", "join", "split"}

\* a context entry called in place of the default arm
notAllowedCallsContext(name, pos) ==
    IF JsGet(ctx, name).t = "function" THEN Ret(Str("invoked " \o name))
    ELSE Throw(CelError("Function not allowed: " \o name, pos))

\* the default arm of callFunction's switch
notAllowed(name, pos) == Throw(CelError("Function not allowed: " \o name, pos))

\* the first argument coalesce accepts, scanning from index i (1-based)
RECURSIVE coalesceFrom(_, _)
coalesceFrom(args, i) ==
    IF i > Len(args) THEN Undefined
    ELSE LET v == args[i] IN
         IF ~IsNullish(v) /\ ~(IsArray(v) /\ Len(v.v) = 0) THEN v
         ELSE coalesceFrom(args, i + 1)

callFunction(name, receiver, args, pos) ==
    LET a0 == Arg(args, 0)
        a1 == Arg(args, 1)
        a2 == Arg(args, 2)
    IN
    IF name = "" THEN Throw(CelError("Missing function name", pos)) ELSE
    CASE name \in {"exists", "has"} ->
           IF IsArray(a0) THEN Ret(Bool(Len(a0.v) > 0))
           ELSE Ret(Bool(~IsNullish(a0)))
      [] name = "size" ->
           IF IsArray(a0) \/ TypeOf(a0) = "string" THEN Ret(Num(Len(a0.v)))
           ELSE IF truthy(a0) /\ TypeOf(a0) = "object"
           THEN Ret(Num(Cardinality(ObjectKeys(a0))))
           ELSE Ret(Num(0))
      [] name = "first" ->
           IF IsArray(a0) THEN Ret(JsGet(a0, "0")) ELSE Ret(a0)
      [] name = "last" ->
           IF IsArray(a0) THEN Ret(JsGet(a0, IntToString(Len(a0.v) - 1))) ELSE Ret(a0)
      [] name = "collect" ->
           IF Len(args) <= 1
           THEN IF IsArray(a0) THEN Ret(a0) ELSE Ret(Arr(<<a0>>))
           ELSE Ret(Arr(args))
      [] name = "lower" ->
           IF TypeOf(a0) = "string" THEN Ret(Str(ToLowerCase(a0.v))) ELSE Ret(a0)
      [] name = "upper" ->
           IF TypeOf(a0) = "string" THEN Ret(Str(ToUpperCase(a0.v))) ELSE Ret(a0)
      [] name = "trim" ->
           IF TypeOf(a0) = "string" THEN Ret(Str(Trim(a0.v))) ELSE Ret(a0)
      [] name = "contains" ->
           IF IsArray(a0) THEN Ret(Bool(\E i \in 1..Len(a0.v) : deepEqual(a0.v[i], a1)))
           ELSE IF TypeOf(a0) = "string"
           THEN Ret(Bool(TypeOf(a1) = "string" /\ Includes(a0.v, a1.v)))
           ELSE Ret(Bool(FALSE))
      [] name = "containsAny" ->
           IF ~IsArray(a0) \/ ~IsArray(a1) THEN Ret(Bool(FALSE))
           ELSE Ret(Bool(\E i \in 1..Len(a1.v) :
                           \E j \in 1..Len(a0.v) : deepEqual(a0.v[j], a1.v[i])))
      [] name = "startsWith" ->
           Ret(Bool(TypeOf(a0) = "string" /\ TypeOf(a1) = "string"
                    /\ StartsWith(a0.v, a1.v)))
      [] name = "endsWith" ->
           Ret(Bool(TypeOf(a0) = "string" /\ TypeOf(a1) = "string"
                    /\ EndsWith(a0.v, a1.v)))
      [] name = "matches" ->
           IF TypeOf(a0) # "string" \/ TypeOf(a1) # "string" THEN Ret(Bool(FALSE))
           ELSE (CASE RegExpInvalid(a1.v) ->
                        Throw(HostError("SyntaxError", "Invalid regular expression"))
                   [] ~RegExpInvalid(a1.v) /\ RegExpSupported(a1.v) ->
                        Ret(Bool(RegExpTest(a1.v, a0.v))))
      [] name = "regexReplace" ->
           IF TypeOf(a0) # "string" \/ TypeOf(a1) # "string" \/ TypeOf(a2) # "string"
           THEN Ret(a0)
           ELSE (CASE RegExpInvalid(a1.v) ->
                        Throw(HostError("SyntaxError", "Invalid regular expression"))
                   [] ~RegExpInvalid(a1.v) /\ RegExpSupported(a1.v) ->
                        Ret(Str(RegExpReplaceFrom(a1.v, a0.v, a2.v, 0))))
      [] name = "coalesce" -> Ret(coalesceFrom(args, 1))
      [] name = "join" ->
           LET sep == IF IsNullish(a1) THEN Str(",") ELSE a1 IN
           IF ~IsArray(a0) THEN Ret(IF TypeOf(a0) = "string" THEN a0 ELSE Str(""))
           ELSE Ret(Str(JoinStrings([i \in 1..Len(a0.v) |-> JsString(a0.v[i])],
                                    JsString(sep))))
      [] name = "split" ->
           LET sep == IF IsNullish(a1) THEN Str(",") ELSE a1 IN
           IF TypeOf(a0) # "string" THEN Ret(Arr(<<>>))
           ELSE LET parts == Split(a0.v, JsString(sep))
                IN Ret(Arr([i \in 1..Len(parts) |-> Str(parts[i])]))
      [] OTHER -> notAllowed(name, pos)

(* ------------------------------ Explain helper --------------------------- *)

RECURSIVE JsonQuoteChars(_)
JsonQuoteChars(s) ==
    IF Len(s) = 0 THEN ""
    ELSE LET c == SubSeq(s, 1, 1)
             q == CASE c = "\"" -> "\\\"" [] c = "\\" -> "\\\\" [] c = "\n" -> "\\n"
                    [] c = "\r" -> "\\r" [] c = "\t" -> "\\t" [] OTHER -> c
         IN q \o JsonQuoteChars(Tail(s))
\* JSON.stringify(s) for a string
JsonStringify(s) == "\"" \o JsonQuoteChars(s) \o "\""

RECURSIVE exprToString(_)
exprToString(e) ==
    CASE e.kind = "lit" ->
           IF TypeOf(e.value) = "string" THEN JsonStringify(e.value.v)
           ELSE JsString(e.value)
      [] e.kind = "ident" -> e.name
      [] e.kind = "get" -> exprToString(e.obj) \o "." \o e.prop
      [] e.kind = "idx" -> exprToString(e.obj) \o "[" \o exprToString(e.index) \o "]"
      [] e.kind = "array" ->
           "[" \o JoinStrings([i \in 1..Len(e.items) |-> exprToString(e.items[i])], ", ")
               \o "]"
      [] e.kind = "call" ->
           exprToString(e.callee) \o "("
               \o JoinStrings([i \in 1..Len(e.args) |-> exprToString(e.args[i])], ", ")
               \o ")"
      [] e.kind = "unary" -> "!" \o exprToString(e.right)
      [] e.kind = "bin" ->
           "(" \o exprToString(e.left) \o " " \o e.op \o " " \o exprToString(e.right) \o ")"
      [] e.kind = "ternary" ->
           "(" \o exprToString(e.cond) \o " ? " \o exprToString(e.thenExpr) \o " : "
               \o exprToString(e.elseExpr) \o ")"

\* a cap checked with > instead of >=
tracePushOneMore(s, e, value) ==
    IF ~s.hasTrace THEN s
    ELSE IF Len(s.trace) > s.opts.maxTraceEntries THEN s
    ELSE [s EXCEPT !.trace = Append(@, [id |-> e.id, kind |-> e.kind,
                                        expr |-> exprToString(e), value |-> value])]

\* tracePush(st, e, value): the EvalState afterwards
tracePush(s, e, value) ==
    IF ~s.hasTrace THEN s
    ELSE IF Len(s.trace) >= s.opts.maxTraceEntries THEN s
    ELSE [s EXCEPT !.trace = Append(@, [id |-> e.id, kind |-> e.kind,
                                        expr |-> exprToString(e), value |-> value])]

(* ---------------------------------- API ---------------------------------- *)

DefaultMaxExpressionLength == 4096
DefaultMaxAstNodes == 2000
DefaultMaxCallDepth == 50
DefaultMaxTraceEntries == 5000

\* o.name ?? default
Option(o, name, default) == IF name \in DOMAIN o THEN o[name] ELSE default

NoProgram == [source |-> "", ast |-> NoExpr]
Pending == [status |-> "pending"]
Parsing == [status |-> "parsing"]

\* options that resolve the length limit one too low
ResolveOptionsShortByOne(o) ==
    [maxExpressionLength |->
         Option(o, "maxExpressionLength", DefaultMaxExpressionLength) - 1,
     maxAstNodes |-> Option(o, "maxAstNodes", DefaultMaxAstNodes),
     maxCallDepth |-> Option(o, "maxCallDepth", DefaultMaxCallDepth),
     maxTraceEntries |-> Option(o, "maxTraceEntries", DefaultMaxTraceEntries)]

\* the options compileCel resolves against the defaults
ResolveOptions(o) ==
    [maxExpressionLength |->
         Option(o, "maxExpressionLength", DefaultMaxExpressionLength),
     maxAstNodes |-> Option(o, "maxAstNodes", DefaultMaxAstNodes),
     maxCallDepth |-> Option(o, "maxCallDepth", DefaultMaxCallDepth),
     maxTraceEntries |-> Option(o, "maxTraceEntries", DefaultMaxTraceEntries)]

\* no call of eval/explain has been made yet
NoEvalState ==
    [callDepth |-> 0, opts |-> ResolveOptions(<<>>), hasTrace |-> FALSE, trace |-> <<>>]

\* an EvalState that starts from the call depth the previous call left
NewEvalStateKeepingDepth(o, withTrace) ==
    [callDepth |-> st.callDepth, opts |-> o, hasTrace |-> withTrace, trace |-> <<>>]

\* an explain that counts itself as a call
NewEvalStateCountingExplain(o, withTrace) ==
    [callDepth |-> IF withTrace THEN 1 ELSE 0, opts |-> o, hasTrace |-> withTrace,
     trace |-> <<>>]

\* the EvalState object CelProgram.eval / CelProgram.explain construct
NewEvalState(o, withTrace) ==
    [callDepth |-> 0, opts |-> o, hasTrace |-> withTrace, trace |-> <<>>]

\* one invocation of evalExpr(expr, ctx, st)
Frame(e) == [expr |-> e, vals |-> <<>>, entered |-> FALSE]

Top == stack[Len(stack)]
Running == mode # "idle" /\ Len(stack) > 0

\* what the caller gets from a finished call
Returned(m, out, s) ==
    IF m = "explain" THEN [status |-> "returned", result |-> out, trace |-> s.trace]
    ELSE [status |-> "returned", result |-> out]
Thrown(e) == [status |-> "thrown", error |-> e]

\* number of call nodes being evaluated: entered, not yet returned
ActiveCalls ==
    Cardinality({k \in 1..Len(stack) : stack[k].expr.kind = "call" /\ stack[k].entered})

\* the record of a finished evalExpr invocation: its node, the values of the
\* children it evaluated, whether (a call) it had passed the depth check,
\* the call nodes active around it, and the value returned or error thrown
NoneDone == [expr |-> NoExpr]
Finished(f, out, err) ==
    [expr |-> f.expr, vals |-> f.vals, entered |-> f.entered, active |-> ActiveCalls,
     out |-> out, err |-> err]

\* evalExpr calls itself on child e
Descend(e) ==
    /\ stack' = Append(stack, Frame(e))
    /\ UNCHANGED <<st, mode, done, calls>>

\* the caller's record of a call that came back
Logged(outcome) == [mode |-> mode, ctx |-> snapshot, prog |-> prog, outcome |-> outcome]

\* the end of evalExpr for the top frame: tracePush(st, expr, out); return out.
\* s is the EvalState before tracePush.  The value goes to the invocation
\* below, or, from the root, to the caller of eval/explain.
Deliver(out, s) ==
    /\ st' = tracePush(s, Top.expr, out)
    /\ done' = Finished(Top, out, NoErr)
    /\ IF Len(stack) = 1
       THEN /\ stack' = <<>>
            /\ mode' = "idle"
            /\ calls' = Append(calls, Logged(Returned(mode, out, st')))
       ELSE /\ stack' = SubSeq(stack, 1, Len(stack) - 2)
                          \o <<[stack[Len(stack) - 1] EXCEPT !.vals = Append(@, out)]>>
            /\ UNCHANGED <<mode, calls>>

\* a throw: nothing in the evaluator catches, so it reaches the caller
Raise(e, s) ==
    /\ st' = s
    /\ done' = Finished(Top, Undefined, e)
    /\ stack' = <<>>
    /\ mode' = "idle"
    /\ calls' = Append(calls, Logged(Thrown(e)))

(* --------------------------- Bounds and inputs --------------------------- *)

\* eval/explain calls made on one compiled program
MaxCalls == 3
\* maxCallDepth is drawn from 0..MaxDepthOption, maxTraceEntries from
\* 0..MaxTraceOption, maxAstNodes from 1..MaxNodesOption
MaxDepthOption == 2
MaxTraceOption == 3
MaxNodesOption == 5
\* deepest chain of nested calls lower(lower(...)) among the sources
MaxNest == 3

\* the contexts the caller passes
RichContext ==
    Obj([a |-> Bool(TRUE), b |-> Bool(FALSE), z |-> Num(0), s |-> Str(" Ab "),
         n |-> Null, arr |-> Arr(<<Str("x"), Str("y")>>),
         pk |-> Str("__proto__"),
         user |-> Obj([profile |-> Null]),
         m |-> Obj("0" :> Num(1)),
         o |-> Obj(("k" :> Num(1)) @@ ("safe" :> Obj([ok |-> Bool(TRUE)]))
                   @@ ("__proto__" :> Obj([hacked |-> Bool(TRUE)]))
                   @@ ("constructor" :> Obj([hacked |-> Bool(TRUE)]))
                   @@ ("prototype" :> Obj([hacked |-> Bool(TRUE)])))])
SparseContext ==
    Obj([a |-> Bool(FALSE), b |-> Str("x"), s |-> Str(""), arr |-> Arr(<<>>),
         pk |-> Str("constructor"), user |-> Obj(<<>>), o |-> Obj(<<>>),
         m |-> Obj(<<>>),
         \* callable entries named like an unknown function and like a built-in
         nope |-> HostFn("ctx.nope"), lower |-> HostFn("ctx.lower")])
EmptyContext == Obj(<<>>)
Contexts == {RichContext, SparseContext}

\* "lower(" n times, then 's', then ")" n times
RECURSIVE Nested(_)
Nested(n) == IF n = 0 THEN "s" ELSE "lower(" \o Nested(n - 1) \o ")"

AccessSources ==
    {r \o x : r \in {"o", "n", "arr"},
              x \in {".k", ".__proto__", ".constructor", ".prototype", "['__proto__']",
                     "[\"constructor\"]", "['prototype']", "[pk]", "[0]", ".toString",
                     "['hasOwnProperty']"}}
ChainSources ==
    {r \o x \o y : r \in {"n", "missing", "user"}, x \in {".profile", "[0]"},
                   y \in {".email", "['k']", "[0]"}}
PrototypeSources ==
    {"constructor", "toString", "__proto__", "hasOwnProperty", "a",
     "'constructor' in o", "'toString' in o", "'k' in o", "'zz' in o"}
LogicSources ==
    {l \o op \o r : l \in {"a", "b", "n", "s"}, op \in {" && ", " || "},
                    r \in {"b", "s", "nope(1)"}}
      \cup {"true || nope(1)", "false && nope(1)", "!b", "a ? s : nope(1)",
            "true ? false ? 'x' : 'y' : 'z'"}
CallSources ==
    {Nested(n) : n \in 1..MaxNest}
      \cup {"nope(nope(1))", "1(2)", "lower(s)(1)", "size(arr).lower(s)", "o.lower(s)",
            "lower(a) + lower(b) + lower(s)", "a ? lower(lower(s)) : 1",
            "has(arr) ? lower(trim(first(arr))) : 'n/a'", "[lower(s), nope()]"}
BuiltinSources ==
    {"has(arr)", "exists(n)", "size(o)", "first(arr)", "last(arr)", "collect(arr)",
     "collect(s, missing)", "lower(s)", "upper(s)", "trim(s)", "contains(arr, 'x')",
     "containsAny(arr, ['y'])", "startsWith(s, ' ')", "endsWith(s, 'b ')",
     "matches(s, 'A.')", "matches(s, '(')", "regexReplace(s, 'b', 'c')",
     "regexReplace(s, '[', 'c')",
     "coalesce(null, [], 'fallback')", "join(arr, '-')", "split(s, 'b')"}
OperatorSources ==
    {"1 + 2 + 3 + 4 + 5", "arr == ['x', 'y']", "o != o", "z < 1", "n >= 0", "s + 1",
     "n + 1", "'x' in arr", "[a, [b]]"}
\* calls of names outside and inside the allow-list
AllowSources == {"nope(1)", "constructor(1)", "o.nope(s)", "s.lower()", "lower(lower)"}
\* comparisons with null, undefined and non-numeric operands
RelationalSources ==
    {"null < 1", "null >= 0", "n < 1", "n > 0", "missing <= 0", "missing > 0", "s > 0",
     "0 <= s", "'x' < 'y'", "1 < 2", "2 <= 2", "a > z"}
\* equality of primitives, sequences and mappings
EqualitySources ==
    {"[1] == m", "m == [1]", "m != [1]", "o == o", "user == o", "arr == []",
     "arr != ['x']", "n == null", "z == 0", "z == '0'", "s == ''", "a == 1", "[[1], 'a'] == [[1], 'a']",
     "user == n"}
\* membership in sequences, strings, mappings and other values
MembershipSources ==
    {"0 in m", "'0' in m", "1 in m", "z in m", "'b' in s", "'' in s", "1 in s", "'x' in n",
     "'x' in z", "'x' in missing", "'x' in a", "['x'] in [arr, ['x']]", "null in [n]",
     "'safe' in o"}
\* + on strings, numbers and null-like operands
AdditionSources ==
    {"'a' + null", "'a' + 1", "1 + 'a'", "s + n", "missing + 'x'", "1 + 2", "a + 1",
     "missing + 1", "arr + 'z'", "z + z", "null + null", "'' + a"}
\* sources at and just over the length limits, well-formed and not
LengthSources == {"o.k", "a #", "a || b", "a || bb", "a # b c", "(a || b"}
\* calls whose callee is an index, a parenthesized literal, an array, a member
CalleeSources == {"arr[0](1)", "('x')()", "[a](1)", "o.k(1)", "(lower)(s)"}
\* sources without grouping parentheses, one space around binary operators,
\* mixing the levels of the precedence table
GrammarSources ==
    {"a || b && c", "a && b || c", "a || b || c", "a && b && c", "a == b < c",
     "a < b == c", "a == b != c", "a in arr == b", "a != b in arr", "z < 1 <= 2",
     "z > 1 >= a", "a < b + c", "a + b < c", "z + 1 + 2", "!a + b", "!a.k", "!!a",
     "!a == b", "a + b in arr", "a ? b : c ? s : z", "a ? b ? s : z : n",
     "a || b ? s : z", "a ? b : s || z", "true ? false ? 'x' : 'y' : 'z'",
     "a && b == z < 1 + !o.k", "!o.k + 1 < z == b && a || n"}
\* number literals with and without sign and fraction, and signs and dots
\* next to them
NumberSources ==
    {"1.", "1.foo", "-1", "- 1", "-a", "1.0", "-2.0 + 1", "arr[1.]", "z < -1", "1 + -1",
     "-1.", "o.k"}
\* array literals and collect calls over present and missing values
ContainerSources ==
    {"[missing]", "[a, o.nope, 1]", "[n]", "collect(missing)", "collect(user.profile.name)",
     "collect(a, b)", "collect(1, 'x', null)", "collect()", "collect(n)", "collect([])",
     "collect(s, missing, 1)"}
\* calls through a member access, next to the same call by name
MemberCallSources ==
    {"[n.lower(s), lower(s)]", "[missing.trim(s), trim(s)]", "[o.size(arr), size(arr)]",
     "[s.upper(), upper()]", "s.trim().lower()", "o.k(1)", "k(1)", "o.safe.has(n)",
     "arr[0].join(arr, s)", "o.nope(s.lower(a), b)", "o.constructor(1)",
     "user.profile.coalesce(n, s)"}
BrokenSources == {"", "(1", "true ? 'a'", "a b", "'ab", "1 +", "-(a)", "a.1"}
\* well-formed sources of one to nine nodes, some with parentheses
CountedSources ==
    {"a", "((a))", "!b", "o.k", "arr[(0)]", "size(o)", "s.trim()", "[]", "[a, [b]]",
     "(a ? (s) : z)", "1 + 2 + 3 + 4 + 5", "(z < 1) == ('x' in arr)",
     "lower(lower(s))", "o.safe.ok || !a"}

\* the programs the caller runs MaxCalls times
RepeatedSources ==
    AccessSources \cup PrototypeSources \cup LogicSources \cup CallSources
      \cup BrokenSources

Sources ==
    RepeatedSources \cup ChainSources \cup BuiltinSources \cup OperatorSources
      \cup CountedSources \cup AllowSources \cup RelationalSources
      \cup EqualitySources \cup MembershipSources
      \cup AdditionSources \cup LengthSources \cup CalleeSources
      \cup GrammarSources \cup NumberSources
      \cup ContainerSources \cup MemberCallSources

\* the number of eval/explain calls the caller makes on the compiled program:
\* one fewer on the programs outside RepeatedSources
CallBudget == IF source \in RepeatedSources THEN MaxCalls ELSE MaxCalls - 1

NoOptions == <<>>
DepthOptions == {[maxCallDepth |-> d] : d \in 0..MaxDepthOption}
TraceOptions == {[maxTraceEntries |-> n] : n \in 0..MaxTraceOption}
NodeOptions == {[maxAstNodes |-> n] : n \in 1..MaxNodesOption}
LengthOptions == {[maxExpressionLength |-> 3], [maxExpressionLength |-> 6]}

\* the (source, options) pairs handed to compileCel
Scenarios ==
    (Sources \X {NoOptions})
      \cup (CallSources \X DepthOptions)
      \cup ((CallSources \cup OperatorSources) \X TraceOptions)
      \cup ((CountedSources \cup BrokenSources) \X NodeOptions)
      \cup ((PrototypeSources \cup BrokenSources \cup LengthSources) \X LengthOptions)

(* --------------------------------- Actions -------------------------------- *)

TooLong(maxLength) ==
    CelError("Expression too long (>" \o ToString(maxLength) \o ")", NoPos)

\* compileCel up to the call of parser.parse()
Compile ==
    /\ compiled = Pending
    /\ LET options == ResolveOptions(opts)
           p == NewParser(source, options.maxAstNodes)
       IN IF Len(source) > options.maxExpressionLength
          THEN /\ compiled' = Thrown(TooLong(options.maxExpressionLength))
               /\ UNCHANGED <<parser, pstack>>
          ELSE /\ parser' = p
               /\ IF p.err # NoErr
                  THEN compiled' = Thrown(p.err) /\ pstack' = <<>>
                  ELSE compiled' = Parsing /\ pstack' = <<Activation("parse")>>
    /\ UNCHANGED <<source, opts, prog, ctx, snapshot, mode, st, stack, done, calls>>

PTop == pstack[Len(pstack)]
InParser(fn) == compiled = Parsing /\ Len(pstack) > 0 /\ PTop.fn = fn

\* the effect of one run o of the innermost parse function.  A throw leaves
\* compileCel; the return of parser.parse() lets compileCel construct the
\* CelProgram.
Resume(o) ==
    /\ parser' = o.p
    /\ IF o.p.err # NoErr
       THEN compiled' = Thrown(o.p.err) /\ pstack' = <<>> /\ UNCHANGED prog
       ELSE CASE o.kind = "call" ->
                   /\ pstack' = [pstack EXCEPT ![Len(pstack)] = o.f]
                                  \o <<Activation(o.fn)>>
                   /\ UNCHANGED <<compiled, prog>>
              [] o.kind = "loop" ->
                   /\ pstack' = [pstack EXCEPT ![Len(pstack)] = o.f]
                   /\ UNCHANGED <<compiled, prog>>
              [] o.kind = "return" /\ Len(pstack) > 1 ->
                   /\ pstack' = SubSeq(pstack, 1, Len(pstack) - 2)
                                  \o <<[pstack[Len(pstack) - 1] EXCEPT !.ret = o.e]>>
                   /\ UNCHANGED <<compiled, prog>>
              [] o.kind = "return" /\ Len(pstack) = 1 ->
                   /\ pstack' = <<>>
                   /\ prog' = [source |-> source, ast |-> o.e,
                               opts |-> ResolveOptions(opts)]
                   /\ compiled' = [status |-> "ok", prog |-> prog']
    /\ UNCHANGED <<source, opts, ctx, snapshot, mode, st, stack, done, calls>>

Parse == InParser("parse") /\ Resume(parse(parser, PTop))
ParseTernary == InParser("parseTernary") /\ Resume(parseTernary(parser, PTop))
ParseOr == InParser("parseOr") /\ Resume(parseOr(parser, PTop))
ParseAnd == InParser("parseAnd") /\ Resume(parseAnd(parser, PTop))
ParseEquality == InParser("parseEquality") /\ Resume(parseEquality(parser, PTop))
ParseRel == InParser("parseRel") /\ Resume(parseRel(parser, PTop))
ParseAdd == InParser("parseAdd") /\ Resume(parseAdd(parser, PTop))
ParseUnary == InParser("parseUnary") /\ Resume(parseUnary(parser, PTop))
ParsePostfix == InParser("parsePostfix") /\ Resume(parsePostfix(parser, PTop))
ParsePrimary == InParser("parsePrimary") /\ Resume(parsePrimary(parser, PTop))

\* the caller invokes program.eval(c), having kept a copy of c
Eval(c) ==
    /\ compiled.status = "ok" /\ mode = "idle" /\ Len(calls) < CallBudget
    /\ ctx' = c /\ snapshot' = c
    /\ mode' = "eval"
    /\ st' = NewEvalState(prog.opts, FALSE)
    /\ stack' = <<Frame(prog.ast)>>
    /\ UNCHANGED <<source, opts, prog, compiled, parser, pstack, done, calls>>

\* the caller invokes program.explain(c)
Explain(c) ==
    /\ compiled.status = "ok" /\ mode = "idle" /\ Len(calls) < CallBudget
    /\ ctx' = c /\ snapshot' = c
    /\ mode' = "explain"
    /\ st' = NewEvalState(prog.opts, TRUE)
    /\ stack' = <<Frame(prog.ast)>>
    /\ UNCHANGED <<source, opts, prog, compiled, parser, pstack, done, calls>>

\* an evaluator that leaves a note of its last step in the context
FixedButContext ==
    /\ UNCHANGED <<source, opts, prog, compiled, parser, pstack, snapshot>>
    /\ ctx' = [ctx EXCEPT !.v = ("_last" :> Null) @@ @]

\* evalExpr assigns neither to the program nor to the context
Fixed == UNCHANGED <<source, opts, prog, compiled, parser, pstack, ctx, snapshot>>

EvalLit ==
    /\ Running /\ Top.expr.kind = "lit"
    /\ Deliver(Top.expr.value, st)
    /\ Fixed

EvalArray ==
    /\ Running /\ Top.expr.kind = "array"
    /\ IF Len(Top.vals) < Len(Top.expr.items)
       THEN Descend(Top.expr.items[Len(Top.vals) + 1])
       ELSE Deliver(Arr(Top.vals), st)
    /\ Fixed

EvalIdent ==
    /\ Running /\ Top.expr.kind = "ident"
    /\ Deliver(JsGet(ctx, Top.expr.name), st)
    /\ Fixed

\* a null-safe access that hands the receiver back instead of undefined
getMemberPassingReceiver(obj, prop) ==
    IF IsNullish(obj) THEN obj
    ELSE IF isPoisonKey(prop) THEN Undefined
    ELSE JsGet(obj, prop)

\* case "get" once obj is evaluated
getMember(obj, prop) ==
    IF IsNullish(obj) THEN Undefined
    ELSE IF isPoisonKey(prop) THEN Undefined
    ELSE JsGet(obj, prop)

EvalGet ==
    /\ Running /\ Top.expr.kind = "get"
    /\ IF Len(Top.vals) = 0 THEN Descend(Top.expr.obj)
       ELSE Deliver(getMember(Top.vals[1], Top.expr.prop), st)
    /\ Fixed

\* case "idx" once obj and idx are evaluated
getIndex(obj, idx) ==
    IF IsNullish(obj) THEN Undefined
    ELSE IF TypeOf(idx) = "number" THEN JsGet(obj, JsString(idx))
    ELSE IF TypeOf(idx) = "string"
    THEN IF isPoisonKey(idx.v) THEN Undefined ELSE JsGet(obj, idx.v)
    ELSE Undefined

EvalIdx ==
    /\ Running /\ Top.expr.kind = "idx"
    /\ CASE Len(Top.vals) = 0 -> Descend(Top.expr.obj)
         [] Len(Top.vals) = 1 -> Descend(Top.expr.index)
         [] OTHER -> Deliver(getIndex(Top.vals[1], Top.vals[2]), st)
    /\ Fixed

EvalUnary ==
    /\ Running /\ Top.expr.kind = "unary"
    /\ IF Len(Top.vals) = 0 THEN Descend(Top.expr.right)
       ELSE Deliver(Bool(~truthy(Top.vals[1])), st)
    /\ Fixed

\* the result of a binary operator that evaluates both operands
binOp(op, left, right, pos) ==
    CASE op = "==" -> Ret(Bool(deepEqual(left, right)))
      [] op = "!=" -> Ret(Bool(~deepEqual(left, right)))
      [] op = "<" -> Ret(Bool(NumLess(JsNumber(left), JsNumber(right))))
      [] op = "<=" -> Ret(Bool(NumLessEq(JsNumber(left), JsNumber(right))))
      [] op = ">" -> Ret(Bool(NumLess(JsNumber(right), JsNumber(left))))
      [] op = ">=" -> Ret(Bool(NumLessEq(JsNumber(right), JsNumber(left))))
      [] op = "+" -> Ret(add(left, right))
      [] op = "in" -> Ret(Bool(inOp(left, right)))
      [] OTHER -> Throw(CelError("Unknown binary op " \o op, pos))

\* short-circuit for && only
shortCircuitsAndOnly(op, left) == op = "&&" /\ ~truthy(left)

\* && with a falsy left and || with a truthy left return without the right
shortCircuits(op, left) ==
    \/ op = "&&" /\ ~truthy(left)
    \/ op = "||" /\ truthy(left)

\* return or throw what a function or operator handed back
Complete(r, s) == IF r.err # NoErr THEN Raise(r.err, st) ELSE Deliver(r.out, s)

EvalBin ==
    /\ Running /\ Top.expr.kind = "bin"
    /\ CASE Len(Top.vals) = 0 -> Descend(Top.expr.left)
         [] Len(Top.vals) = 1 ->
              IF shortCircuits(Top.expr.op, Top.vals[1])
              THEN Deliver(Bool(Top.expr.op = "||"), st)
              ELSE Descend(Top.expr.right)
         [] OTHER ->
              IF Top.expr.op \in {"&&", "||"} THEN Deliver(Bool(truthy(Top.vals[2])), st)
              ELSE Complete(binOp(Top.expr.op, Top.vals[1], Top.vals[2], Top.expr.pos), st)
    /\ Fixed

EvalTernary ==
    /\ Running /\ Top.expr.kind = "ternary"
    /\ CASE Len(Top.vals) = 0 -> Descend(Top.expr.cond)
         [] Len(Top.vals) = 1 ->
              IF truthy(Top.vals[1]) THEN Descend(Top.expr.thenExpr)
              ELSE Descend(Top.expr.elseExpr)
         [] OTHER -> Deliver(Top.vals[2], st)
    /\ Fixed

\* the evalExpr calls a call node makes: the receiver (callee.obj), then the arguments
\* a call that evaluates its member callee as an expression
CallChildrenWithCallee(e) ==
    (IF e.callee.kind = "get" THEN <<e.callee>> ELSE <<>>) \o e.args

CallChildren(e) ==
    (IF e.callee.kind = "get" THEN <<e.callee.obj>> ELSE <<>>) \o e.args

\* st.callDepth++ and the check against maxCallDepth
EnterCall(s) == [s EXCEPT !.callDepth = @ + 1]
\* a return that leaves the depth as it is
LeaveCallKeepingDepth(s) == s
\* st.callDepth-- after callFunction returned
LeaveCall(s) == [s EXCEPT !.callDepth = @ - 1]
\* a depth checked with >= instead of >
callDepthExceededEarly(s) == s.callDepth >= s.opts.maxCallDepth

callDepthExceeded(s) == s.callDepth > s.opts.maxCallDepth

DepthExceeded(maxCallDepth, pos) ==
    CelError("Max call depth exceeded (>" \o ToString(maxCallDepth) \o ")", pos)

\* the function name of a call node
CalleeName(e) == IF e.callee.kind = "get" THEN e.callee.prop ELSE e.callee.name

\* a member call that passes its receiver as the first argument
callArgsWithReceiver(e, vals) == vals

\* args: the values of expr.args, which follow the receiver's among the
\* values the call node has evaluated
callArgs(e, vals) == IF e.callee.kind = "get" THEN Tail(vals) ELSE vals

EvalCall ==
    /\ Running /\ Top.expr.kind = "call"
    /\ IF ~Top.entered
       THEN IF callDepthExceeded(EnterCall(st))
            THEN Raise(DepthExceeded(st.opts.maxCallDepth, Top.expr.pos), EnterCall(st))
            ELSE IF Top.expr.callee.kind \notin {"ident", "get"}
            THEN Raise(CelError("Invalid function call target", Top.expr.pos),
                       EnterCall(st))
            ELSE /\ st' = EnterCall(st)
                 /\ stack' = [stack EXCEPT ![Len(stack)].entered = TRUE]
                 /\ UNCHANGED <<mode, done, calls>>
       ELSE IF Len(Top.vals) < Len(CallChildren(Top.expr))
       THEN Descend(CallChildren(Top.expr)[Len(Top.vals) + 1])
       ELSE Complete(callFunction(CalleeName(Top.expr),
                                  IF Top.expr.callee.kind = "get" THEN Top.vals[1]
                                  ELSE Undefined,
                                  callArgs(Top.expr, Top.vals),
                                  Top.expr.pos),
                     LeaveCall(st))
    /\ Fixed

(* ------------------------------ Specification ---------------------------- *)

Init ==
    /\ \E sc \in Scenarios : source = sc[1] /\ opts = sc[2]
    /\ prog = NoProgram
    /\ compiled = Pending
    /\ parser = NewParser("", DefaultMaxAstNodes)
    /\ pstack = <<>>
    /\ ctx = EmptyContext
    /\ snapshot = EmptyContext
    /\ mode = "idle"
    /\ st = NoEvalState
    /\ stack = <<>>
    /\ done = NoneDone
    /\ calls = <<>>

Next ==
    \/ Compile
    \/ Parse
    \/ ParseTernary
    \/ ParseOr
    \/ ParseAnd
    \/ ParseEquality
    \/ ParseRel
    \/ ParseAdd
    \/ ParseUnary
    \/ ParsePostfix
    \/ ParsePrimary
    \/ \E c \in Contexts : Eval(c)
    \/ \E c \in Contexts : Explain(c)
    \/ EvalLit
    \/ EvalArray
    \/ EvalIdent
    \/ EvalGet
    \/ EvalIdx
    \/ EvalUnary
    \/ EvalBin
    \/ EvalTernary
    \/ EvalCall

Spec == Init /\ [][Next]_vars

(* --------------------------------- Properties ----------------------------- *)

\* the calls the caller has seen come back
Calls == {calls[i] : i \in 1..Len(calls)}
\* the active evalExpr invocations
Frames == {stack[k] : k \in 1..Len(stack)}
\* evalExpr has returned a value for a node of kind k
Evaluated(k) == done.expr.kind = k /\ done.err = NoErr

\* the falsy values: null, undefined, false, 0, NaN, the empty string
Falsy == {Null, Undefined, Bool(FALSE), Num(0), NaN, Str("")}
PoisonKeys == {"__proto__", "constructor", "prototype"}
Nullish == {Null, Undefined}

\* C1: explain(C) raises exactly when eval(C) raises, and when neither
\* raises explain(C).result equals eval(C), whatever the options (any
\* maxTraceEntries included).
ExplainAgreesWithEval ==
    \A c, d \in Calls :
        (c.mode = "eval" /\ d.mode = "explain" /\ c.ctx = d.ctx) =>
            /\ c.outcome.status = d.outcome.status
            /\ c.outcome.status = "returned" => d.outcome.result = c.outcome.result

\* eval and explain both returned a string from the same context, explain
\* with a trace cut short by maxTraceEntries
ExplainAgreesWithEvalWitness ==
    \E c, d \in Calls :
        /\ c.mode = "eval" /\ d.mode = "explain" /\ c.ctx = d.ctx
        /\ c.outcome.status = "returned" /\ d.outcome.status = "returned"
        /\ d.outcome.result.t = "string"
        /\ Len(d.outcome.trace) = prog.opts.maxTraceEntries

\* C2: `&&` with a falsy left is false and `||` with a truthy left is true,
\* the right operand not being evaluated (so nothing it would raise is
\* raised); when the right operand is evaluated the result is its
\* truthiness, a boolean.
ShortCircuit ==
    /\ \A f \in Frames :
           (f.expr.kind = "bin" /\ Len(f.vals) >= 1) =>
               /\ (f.expr.op = "&&" /\ f.vals[1] \in Falsy) =>
                      f = Top /\ Len(f.vals) = 1
               /\ (f.expr.op = "||" /\ f.vals[1] \notin Falsy) =>
                      f = Top /\ Len(f.vals) = 1
    /\ (Evaluated("bin") /\ done.expr.op = "&&") =>
           IF done.vals[1] \in Falsy
           THEN Len(done.vals) = 1 /\ done.out = Bool(FALSE)
           ELSE Len(done.vals) = 2 /\ done.out = Bool(done.vals[2] \notin Falsy)
    /\ (Evaluated("bin") /\ done.expr.op = "||") =>
           IF done.vals[1] \notin Falsy
           THEN Len(done.vals) = 1 /\ done.out = Bool(TRUE)
           ELSE Len(done.vals) = 2 /\ done.out = Bool(done.vals[2] \notin Falsy)

\* a call came back with true from `true || nope(1)`, nope not being an
\* allowed function
ShortCircuitWitness ==
    /\ mode = "idle" /\ Evaluated("bin") /\ done.expr = prog.ast
    /\ done.expr.op = "||" /\ done.expr.right.kind = "call"
    /\ done.expr.right.callee.name \notin AllowedFunctions
    /\ calls[Len(calls)].outcome.status = "returned"
    /\ calls[Len(calls)].outcome.result = Bool(TRUE)

\* C3: `x.p` with p a poison key, and `x[k]` with k evaluating to a poison
\* key (a literal or a value of the context), is undefined for every
\* receiver, one that owns a key of that name included.
PoisonKeySafety ==
    /\ (Evaluated("get") /\ done.expr.prop \in PoisonKeys) => done.out = Undefined
    /\ (Evaluated("idx") /\ done.vals[2] \in {Str(k) : k \in PoisonKeys}) =>
           done.out = Undefined

\* `o[pk]`, pk holding "__proto__" in the context and o owning a key of that name
PoisonKeySafetyWitness ==
    /\ Evaluated("idx") /\ done.expr.index.kind = "ident"
    /\ done.vals[2] = Str("__proto__")
    /\ done.vals[1].t = "object" /\ "__proto__" \in DOMAIN done.vals[1].v
    /\ done.out = Undefined

\* the keys a value owns
OwnKeysOf(x) ==
    CASE x.t = "object" -> DOMAIN x.v
      [] x.t = "array" -> {IntToString(i) : i \in 0..(Len(x.v) - 1)} \cup {"length"}
      [] x.t = "string" -> {IntToString(i) : i \in 0..(Len(x.v) - 1)} \cup {"length"}
      [] OTHER -> {}

\* C4: the prototype chain is not observable: an identifier the context does
\* not own is undefined, a member or index access with a key the receiver
\* does not own is undefined, and `k in obj` is false for a key obj does not own.
PrototypeChainHidden ==
    /\ (Evaluated("ident") /\ done.expr.name \notin OwnKeysOf(ctx)) => done.out = Undefined
    /\ (Evaluated("get") /\ done.expr.prop \notin OwnKeysOf(done.vals[1])) =>
           done.out = Undefined
    /\ (Evaluated("idx") /\ done.vals[2].t = "string"
          /\ done.vals[2].v \notin OwnKeysOf(done.vals[1])) => done.out = Undefined
    /\ (Evaluated("bin") /\ done.expr.op = "in" /\ done.vals[2].t = "object"
          /\ done.vals[1].t = "string" /\ done.vals[1].v \notin OwnKeysOf(done.vals[2])) =>
           done.out = Bool(FALSE)

\* an access chain: an identifier followed by .p and [literal] accesses
RECURSIVE IsChain(_)
IsChain(e) ==
    CASE e.kind = "ident" -> TRUE
      [] e.kind = "get" -> IsChain(e.obj)
      [] e.kind = "idx" -> e.index.kind = "lit" /\ IsChain(e.obj)
      [] OTHER -> FALSE

\* the trace entries of the proper prefixes of the chain a call evaluated
PrefixEntries(c) ==
    {c.outcome.trace[k] : k \in 1..Len(c.outcome.trace)}
      \ {t \in {c.outcome.trace[k] : k \in 1..Len(c.outcome.trace)} :
             t.kind = "lit" \/ t.id = c.prog.ast.id}

\* C5: an access with a null or undefined receiver is undefined; an access
\* chain raises nothing, and is undefined whenever one of its proper prefixes
\* is null or undefined.
MissingKeySafety ==
    /\ (Evaluated("get") /\ done.vals[1] \in Nullish) => done.out = Undefined
    /\ (Evaluated("idx") /\ done.vals[1] \in Nullish) => done.out = Undefined
    /\ \A c \in Calls :
           IsChain(c.prog.ast) =>
               /\ c.outcome.status = "returned"
               /\ (c.mode = "explain" /\ \E t \in PrefixEntries(c) : t.value \in Nullish) =>
                      c.outcome.result = Undefined

\* explain came back with undefined from a chain of two accesses whose first
\* name is null in the context
MissingKeySafetyWitness ==
    \E c \in Calls :
        /\ IsChain(c.prog.ast) /\ c.prog.ast.kind = "idx" /\ c.prog.ast.obj.kind = "get"
        /\ c.mode = "explain" /\ c.outcome.status = "returned"
        /\ \E t \in PrefixEntries(c) : t.kind = "ident" /\ t.value = Null
        /\ c.outcome.result = Undefined

\* s is the text t or starts with it
HasPrefix(s, t) == Len(s) >= Len(t) /\ SubSeq(s, 1, Len(t)) = t
IsDepthError(e) == e.name = "CelError" /\ HasPrefix(e.message, "Max call depth exceeded")
IsTooComplex(e) == e.name = "CelError" /\ HasPrefix(e.message, "Expression too complex")

\* C6: with maxCallDepth = D never more than D call nodes are being
\* evaluated; entering a call node while D are raises 'Max call depth
\* exceeded', before the callee, the arguments or the allow-list are looked
\* at, and the error is raised nowhere else.
CallDepthBound ==
    /\ ActiveCalls <= st.opts.maxCallDepth
    /\ (done.expr.kind = "call" /\ done.err # NoErr /\ ~done.entered) =>
           (IsDepthError(done.err) <=> done.active = prog.opts.maxCallDepth)
    /\ (done.expr.kind # "none" /\ IsDepthError(done.err)) =>
           /\ done.expr.kind = "call" /\ ~done.entered /\ done.vals = <<>>
           /\ done.active = prog.opts.maxCallDepth
           /\ done.err.position = done.expr.pos
    /\ (mode = "idle" /\ done.expr.kind # "none" /\ IsDepthError(done.err)) =>
           calls[Len(calls)].outcome = Thrown(done.err)

\* the argument of nope(...) is a call of nope, entered while maxCallDepth = 1
\* call node is active: it raises the depth error, not 'Function not allowed'
CallDepthBoundWitness ==
    /\ done.expr.kind = "call" /\ IsDepthError(done.err)
    /\ done.active = 1 /\ prog.opts.maxCallDepth = 1
    /\ CalleeName(done.expr) \notin AllowedFunctions
    /\ mode = "idle" /\ calls[Len(calls)].outcome = Thrown(done.err)

\* nodes of an AST: every node counts once
RECURSIVE NodeCount(_), SumNodes(_)
SumNodes(es) == IF es = <<>> THEN 0 ELSE NodeCount(Head(es)) + SumNodes(Tail(es))
NodeCount(e) ==
    CASE e.kind \in {"lit", "ident"} -> 1
      [] e.kind = "get" -> 1 + NodeCount(e.obj)
      [] e.kind = "idx" -> 1 + NodeCount(e.obj) + NodeCount(e.index)
      [] e.kind = "unary" -> 1 + NodeCount(e.right)
      [] e.kind = "bin" -> 1 + NodeCount(e.left) + NodeCount(e.right)
      [] e.kind = "ternary" ->
           1 + NodeCount(e.cond) + NodeCount(e.thenExpr) + NodeCount(e.elseExpr)
      [] e.kind = "array" -> 1 + SumNodes(e.items)
      [] e.kind = "call" -> 1 + NodeCount(e.callee) + SumNodes(e.args)

\* the nodes the well-formed sources produce, counted by hand: literals,
\* identifiers, member accesses, indexes, calls, unary and binary operators,
\* arrays and ternaries once each, parentheses not at all
ExpectedNodes(src) ==
    CASE src \in {"a", "((a))", "[]"} -> 1
      [] src \in {"!b", "o.k"} -> 2
      [] src \in {"arr[(0)]", "size(o)", "s.trim()"} -> 3
      [] src \in {"[a, [b]]", "(a ? (s) : z)"} -> 4
      [] src = "lower(lower(s))" -> 5
      [] src = "o.safe.ok || !a" -> 6
      [] src = "(z < 1) == ('x' in arr)" -> 7
      [] src = "1 + 2 + 3 + 4 + 5" -> 9

\* C7: compile with maxAstNodes = N returns no program of more than N
\* nodes, and on a well-formed source raises 'Expression too complex'
\* exactly when the source produces more than N nodes.
NodeCap ==
    /\ compiled.status = "ok" =>
           NodeCount(compiled.prog.ast) <= Option(opts, "maxAstNodes", DefaultMaxAstNodes)
    /\ (source \in CountedSources /\ compiled.status \in {"ok", "thrown"}
          /\ Len(source) <= Option(opts, "maxExpressionLength", DefaultMaxExpressionLength)) =>
           IF ExpectedNodes(source) > Option(opts, "maxAstNodes", DefaultMaxAstNodes)
           THEN compiled.status = "thrown" /\ IsTooComplex(compiled.error)
           ELSE /\ compiled.status = "ok"
                /\ NodeCount(compiled.prog.ast) = ExpectedNodes(source)

\* a parenthesised source of exactly maxAstNodes nodes compiled, the cap
\* being below the default
NodeCapWitness ==
    /\ compiled.status = "ok" /\ source \in CountedSources
    /\ HasPrefix(source, "(")
    /\ "maxAstNodes" \in DOMAIN opts
    /\ NodeCount(compiled.prog.ast) = opts.maxAstNodes

\* every node of e is evaluated whenever e is: no call (whose callee is
\* not), no &&, || or ternary
RECURSIVE Strict(_)
Strict(e) ==
    CASE e.kind \in {"lit", "ident"} -> TRUE
      [] e.kind = "get" -> Strict(e.obj)
      [] e.kind = "idx" -> Strict(e.obj) /\ Strict(e.index)
      [] e.kind = "unary" -> Strict(e.right)
      [] e.kind = "bin" -> e.op \notin {"&&", "||"} /\ Strict(e.left) /\ Strict(e.right)
      [] e.kind = "array" -> \A i \in 1..Len(e.items) : Strict(e.items[i])
      [] OTHER -> FALSE

Min(a, b) == IF a < b THEN a ELSE b

\* C8: the trace never holds more than maxTraceEntries entries; at the cap
\* entries are dropped and evaluation goes on: explain returns what eval
\* returns, and the first maxTraceEntries entries (all of them when fewer
\* nodes are evaluated); `1 + 2 + 3 + 4 + 5` gives 15.
TraceCap ==
    /\ Len(st.trace) <= st.opts.maxTraceEntries
    /\ \A c \in Calls :
           (c.mode = "explain" /\ c.outcome.status = "returned") =>
               /\ Len(c.outcome.trace) <= c.prog.opts.maxTraceEntries
               /\ Strict(c.prog.ast) =>
                      Len(c.outcome.trace)
                          = Min(c.prog.opts.maxTraceEntries, NodeCount(c.prog.ast))
               /\ \A d \in Calls :
                      (d.mode = "eval" /\ d.ctx = c.ctx) =>
                          d.outcome = [status |-> "returned", result |-> c.outcome.result]
               /\ c.prog.source = "1 + 2 + 3 + 4 + 5" => c.outcome.result = Num(15)

\* `1 + 2 + 3 + 4 + 5` explained with maxTraceEntries = 3: 15 and 3 entries
TraceCapWitness ==
    \E c \in Calls :
        /\ c.mode = "explain" /\ c.prog.source = "1 + 2 + 3 + 4 + 5"
        /\ c.prog.opts.maxTraceEntries = 3
        /\ c.outcome.status = "returned" /\ c.outcome.result = Num(15)
        /\ Len(c.outcome.trace) = 3

\* C9: during a call and after it returned or raised, the caller's context
\* equals the copy taken before the call.
ContextImmutable == ctx = snapshot

\* a call returned, and a later call on a context with nested values raised
ContextImmutableWitness ==
    /\ mode = "idle" /\ ctx = RichContext
    /\ calls[Len(calls)].ctx = RichContext
    /\ calls[Len(calls)].outcome.status = "thrown"
    /\ \E c \in Calls : c.outcome.status = "returned"

\* C10: calls of one mode on one context have one outcome, whatever calls
\* came before them (calls that raised included), and the program is the one
\* compileCel returned, after every call.
Deterministic ==
    /\ \A c, d \in Calls : (c.mode = d.mode /\ c.ctx = d.ctx) => c.outcome = d.outcome
    /\ compiled.status = "ok" => prog = compiled.prog
    /\ \A c \in Calls : c.prog = compiled.prog

\* eval(C) raised the depth error, a call on another context returned, and
\* eval(C) raised the same error again
DeterministicWitness ==
    /\ Len(calls) = 3
    /\ calls[1].mode = calls[3].mode /\ calls[1].ctx = calls[3].ctx
    /\ calls[2].ctx # calls[1].ctx
    /\ calls[1].outcome.status = "thrown" /\ IsDepthError(calls[1].outcome.error)
    /\ calls[2].outcome.status = "returned"
    /\ calls[3].outcome = calls[1].outcome

\* callFunction has run for the call node that finished last
Dispatched ==
    /\ done.expr.kind = "call" /\ done.entered
    /\ Len(done.vals) = Len(CallChildren(done.expr))
\* the arguments of the call node that finished last
DoneArgs == IF done.expr.callee.kind = "get" THEN Tail(done.vals) ELSE done.vals

\* C11: a dispatched call of a name outside the allow-list raises
\* 'Function not allowed: <name>', whatever the context holds under that name;
\* only allow-listed names return, and a context entry named like a built-in
\* does not replace it (lower of a string is its lower-case form).
ClosedAllowList ==
    /\ (Dispatched /\ CalleeName(done.expr) \notin AllowedFunctions) =>
           done.err = CelError("Function not allowed: " \o CalleeName(done.expr),
                               done.expr.pos)
    /\ (Dispatched /\ done.err = NoErr) => CalleeName(done.expr) \in AllowedFunctions
    /\ (Dispatched /\ CalleeName(done.expr) = "lower" /\ Len(DoneArgs) > 0
          /\ DoneArgs[1].t = "string") =>
           done.out = Str(ToLowerCase(DoneArgs[1].v)) /\ done.err = NoErr

\* a call of nope was dispatched on a context that holds a callable nope
ClosedAllowListWitness ==
    /\ Dispatched /\ CalleeName(done.expr) = "nope"
    /\ JsGet(ctx, "nope").t = "function"
    /\ done.err = CelError("Function not allowed: nope", done.expr.pos)

\* C12: every failure raised by compile, eval or explain is a CelError,
\* a pattern that does not compile as a regular expression included.
SingleErrorType ==
    /\ compiled.status = "thrown" => compiled.error.name = "CelError"
    /\ \A c \in Calls : c.outcome.status = "thrown" => c.outcome.error.name = "CelError"

\* the call that came back last
LastCall == calls[Len(calls)]

\* C13: when evaluation fails during explain, the caller is handed a trace
\* holding every entry recorded before the failing node.
PartialTraces ==
    (mode = "idle" /\ Len(calls) > 0 /\ LastCall.mode = "explain"
       /\ LastCall.outcome.status = "thrown") =>
        /\ "trace" \in DOMAIN LastCall.outcome
        /\ LastCall.outcome.trace = st.trace

\* a string that is not a number: it holds a letter
NonNumeric(v) ==
    v.t = "string" /\ \E i \in 1..Len(v.v) : SubSeq(v.v, i, i) \in Letters
\* operands the claim says convert to NaN
NullLike(v) == v \in Nullish \/ NonNumeric(v)

\* C14: a relational operator with an operand that is null, undefined or a
\* non-numeric string is false.
RelationalNullLike ==
    (Evaluated("bin") /\ done.expr.op \in {"<", "<=", ">", ">="}
       /\ (NullLike(done.vals[1]) \/ NullLike(done.vals[2]))) =>
        done.out = Bool(FALSE)

\* a value built from null, booleans, numbers, strings, sequences and mappings
RECURSIVE Plain(_)
Plain(v) ==
    CASE v.t \in {"null", "boolean", "number", "string"} -> TRUE
      [] v.t = "array" -> \A i \in 1..Len(v.v) : Plain(v.v[i])
      [] v.t = "object" -> \A k \in DOMAIN v.v : Plain(v.v[k])
      [] OTHER -> FALSE

\* deep structural equality as the specification words it
RECURSIVE StructurallyEqual(_, _)
StructurallyEqual(a, b) ==
    CASE a.t = "array" /\ b.t = "array" ->
           Len(a.v) = Len(b.v) /\ \A i \in 1..Len(a.v) : StructurallyEqual(a.v[i], b.v[i])
      [] a.t = "object" /\ b.t = "object" ->
           DOMAIN a.v = DOMAIN b.v /\ \A k \in DOMAIN a.v : StructurallyEqual(a.v[k], b.v[k])
      [] a.t \in {"array", "object"} \/ b.t \in {"array", "object"} -> FALSE
      [] OTHER -> a = b

\* C15: == is deep structural equality and != its negation: primitives are
\* equal iff identical, sequences iff element-wise equal, mappings iff they
\* have the same keys with equal values, and a sequence never equals a mapping.
DeepStructuralEquality ==
    (Evaluated("bin") /\ done.expr.op \in {"==", "!="}
       /\ Plain(done.vals[1]) /\ Plain(done.vals[2])) =>
        done.out = Bool(StructurallyEqual(done.vals[1], done.vals[2])
                          <=> done.expr.op = "==")

\* what `l in r` is by the specification's table
Member(l, r) ==
    CASE r.t = "array" -> \E i \in 1..Len(r.v) : StructurallyEqual(r.v[i], l)
      [] r.t = "string" -> l.t = "string" /\ Includes(r.v, l.v)
      [] r.t = "object" -> l.t = "string" /\ l.v \in DOMAIN r.v
      [] OTHER -> FALSE

\* C16: `l in r` is membership by deep equality in a sequence, substring
\* containment in a string (false for a non-string l), key presence in a
\* mapping (false for a non-string l), false for any other r; it never raises.
InSemantics ==
    (done.expr.kind = "bin" /\ done.expr.op = "in") =>
        /\ done.err = NoErr
        /\ done.out = Bool(Member(done.vals[1], done.vals[2]))

\* an operand of + as a string: null and undefined are the empty string
Rendered(v) == IF v \in Nullish THEN "" ELSE JsString(v)
\* the sum of two operands converted to numbers
NumericSum(l, r) ==
    IF JsNumber(l) = NaN \/ JsNumber(r) = NaN THEN NaN
    ELSE Num(JsNumber(l).v + JsNumber(r).v)

\* C17: a + b concatenates the operands as strings when either is a string,
\* null and undefined rendered as the empty string ('a' + null is "a",
\* 'a' + 1 is "a1"); otherwise it adds the operands converted to numbers.
AddSemantics ==
    (Evaluated("bin") /\ done.expr.op = "+") =>
        /\ (done.vals[1].t = "string" \/ done.vals[2].t = "string") =>
               done.out = Str(Rendered(done.vals[1]) \o Rendered(done.vals[2]))
        /\ (done.vals[1].t # "string" /\ done.vals[2].t # "string") =>
               done.out = NumericSum(done.vals[1], done.vals[2])
        /\ done.vals = <<Str("a"), Null>> => done.out = Str("a")
        /\ done.vals = <<Str("a"), Num(1)>> => done.out = Str("a1")
        /\ done.vals = <<Num(1), Num(2)>> => done.out = Num(3)

\* 'a' + null has been evaluated, and so has a sum with a null operand
AddSemanticsWitness ==
    /\ Evaluated("bin") /\ done.expr.op = "+"
    /\ done.vals = <<Str("a"), Null>> /\ done.out = Str("a")
    /\ \E c \in Calls : c.outcome = Returned(c.mode, Str("a"), st)

\* the length limit in force: the option given, or the default
LengthLimitInForce ==
    IF "maxExpressionLength" \in DOMAIN opts THEN opts.maxExpressionLength
    ELSE DefaultMaxExpressionLength
IsTooLong(e) == e.name = "CelError" /\ HasPrefix(e.message, "Expression too long")

\* C18: compile raises 'Expression too long' exactly when the source is
\* longer than maxExpressionLength, before any tokenizing (so also for a
\* source with a lexical or syntax error); a compiled Program's source is the
\* text given.
LengthLimit ==
    /\ (compiled # Pending /\ Len(source) > LengthLimitInForce) =>
           /\ compiled.status = "thrown" /\ IsTooLong(compiled.error)
           /\ parser.src = "" /\ parser.nodeCount = 0
    /\ (compiled.status = "thrown" /\ IsTooLong(compiled.error)) =>
           Len(source) > LengthLimitInForce
    /\ compiled.status = "ok" =>
           compiled.prog.source = source /\ Len(source) <= LengthLimitInForce

\* a source of exactly maxExpressionLength characters has been compiled
LengthLimitWitness ==
    /\ "maxExpressionLength" \in DOMAIN opts
    /\ Len(source) = opts.maxExpressionLength
    /\ compiled.status = "ok" /\ compiled.prog.source = source

\* an over-long source with a lexical error was refused for its length
LengthLimitErrorWitness ==
    /\ source = "a # b c" /\ compiled.status = "thrown" /\ IsTooLong(compiled.error)

\* the children of an AST node
Children(e) ==
    CASE e.kind \in {"lit", "ident"} -> <<>>
      [] e.kind = "get" -> <<e.obj>>
      [] e.kind = "idx" -> <<e.obj, e.index>>
      [] e.kind = "unary" -> <<e.right>>
      [] e.kind = "bin" -> <<e.left, e.right>>
      [] e.kind = "ternary" -> <<e.cond, e.thenExpr, e.elseExpr>>
      [] e.kind = "array" -> e.items
      [] e.kind = "call" -> <<e.callee>> \o e.args

\* every Call node of the tree has an Identifier or a Member access as callee
RECURSIVE CalleesCallable(_)
CalleesCallable(e) ==
    /\ e.kind = "call" => e.callee.kind \in {"ident", "get"}
    /\ \A i \in 1..Len(Children(e)) : CalleesCallable(Children(e)[i])

\* C19: in every AST compile returns, the callee of every Call node is an
\* Identifier or a Member access.
CalleeShape == compiled.status = "ok" => CalleesCallable(compiled.prog.ast)

\* the level of a node in the precedence table, weakest first
Level(e) ==
    CASE e.kind = "ternary" -> 1
      [] e.kind = "bin" /\ e.op = "||" -> 2
      [] e.kind = "bin" /\ e.op = "&&" -> 3
      [] e.kind = "bin" /\ e.op \in {"==", "!=", "in"} -> 4
      [] e.kind = "bin" /\ e.op \in {"<", "<=", ">", ">="} -> 5
      [] e.kind = "bin" /\ e.op = "+" -> 6
      [] e.kind = "unary" -> 7
      [] OTHER -> 8

\* the tree groups as the table says when no parentheses intervene: the
\* condition of a ternary is tighter than a ternary, the left operand of a
\* binary operator is of its level or tighter (left-associative), its right
\* operand is tighter, the operand of ! is a unary or tighter, the receiver
\* of a postfix is a postfix or primary
RECURSIVE Grouped(_)
Grouped(e) ==
    /\ e.kind = "ternary" => Level(e.cond) > 1
    /\ e.kind = "bin" => Level(e.left) >= Level(e) /\ Level(e.right) > Level(e)
    /\ e.kind = "unary" => Level(e.right) >= 7
    /\ e.kind \in {"get", "idx"} => Level(e.obj) = 8
    /\ e.kind = "call" => Level(e.callee) = 8
    /\ \A i \in 1..Len(Children(e)) : Grouped(Children(e)[i])

\* the token text of a tree, written without grouping parentheses
RECURSIVE Flat(_)
Flat(e) ==
    CASE e.kind = "lit" ->
           IF e.value.t = "string" THEN "'" \o e.value.v \o "'" ELSE JsString(e.value)
      [] e.kind = "ident" -> e.name
      [] e.kind = "get" -> Flat(e.obj) \o "." \o e.prop
      [] e.kind = "idx" -> Flat(e.obj) \o "[" \o Flat(e.index) \o "]"
      [] e.kind = "unary" -> "!" \o Flat(e.right)
      [] e.kind = "bin" -> Flat(e.left) \o " " \o e.op \o " " \o Flat(e.right)
      [] e.kind = "ternary" ->
           Flat(e.cond) \o " ? " \o Flat(e.thenExpr) \o " : " \o Flat(e.elseExpr)
      [] e.kind = "array" ->
           "[" \o JoinStrings([i \in 1..Len(e.items) |-> Flat(e.items[i])], ", ") \o "]"
      [] e.kind = "call" ->
           Flat(e.callee) \o "("
               \o JoinStrings([i \in 1..Len(e.args) |-> Flat(e.args[i])], ", ") \o ")"

\* C20: compile builds the tree of the precedence table: ternary
\* (right-associative), ||, &&, the equality group, the relational group, +,
\* prefix !, postfix, every binary level left-associative.  A source written
\* without grouping parentheses compiles to the one tree whose token text is
\* the source and whose grouping follows the table (looked at when compile
\* returns, before the first call); the nested ternary
\* true ? false ? 'x' : 'y' : 'z' is "y".
OperatorGrammar ==
    /\ (source \in GrammarSources /\ compiled \notin {Pending, Parsing}) =>
           compiled.status = "ok" /\ Flat(compiled.prog.ast) = source
    /\ (compiled.status = "ok" /\ calls = <<>> /\ mode = "idle"
          /\ Flat(compiled.prog.ast) = source) =>
           Grouped(compiled.prog.ast)
    /\ \A c \in Calls :
           c.prog.source = "true ? false ? 'x' : 'y' : 'z'" =>
               c.outcome.status = "returned" /\ c.outcome.result = Str("y")

\* the nested ternary has been compiled with the inner ternary as its then
\* branch, and evaluated
OperatorGrammarWitness ==
    /\ source = "true ? false ? 'x' : 'y' : 'z'" /\ compiled.status = "ok"
    /\ compiled.prog.ast.kind = "ternary"
    /\ compiled.prog.ast.thenExpr.kind = "ternary"
    /\ \E c \in Calls : c.outcome.status = "returned" /\ c.outcome.result = Str("y")

\* a source mixing six levels has been compiled with || at the root
OperatorGrammarLevelsWitness ==
    /\ source = "!o.k + 1 < z == b && a || n" /\ compiled.status = "ok"
    /\ compiled.prog.ast.kind = "bin" /\ compiled.prog.ast.op = "||"
    /\ compiled.prog.ast.left.op = "&&"
    /\ compiled.prog.ast.left.left.op = "=="
    /\ compiled.prog.ast.left.left.left.op = "<"
    /\ compiled.prog.ast.left.left.left.left.op = "+"
    /\ compiled.prog.ast.left.left.left.left.left.kind = "unary"
    /\ compiled.prog.ast.left.left.left.left.left.right.kind = "get"

\* the text of a number literal: an optional "-", one or more digits, and
\* optionally a "." with one or more digits after it
IsNumberText(s) ==
    LET a == IF CharAt(s, 0) = "-" THEN 1 ELSE 0
        b == digitsEnd(s, a)
    IN /\ b > a
       /\ \/ b = Len(s)
          \/ CharAt(s, b) = "." /\ b + 1 < Len(s) /\ digitsEnd(s, b + 1) = Len(s)

\* C21: a "-" not immediately followed by a digit is a lex error (`-(a)`
\* does not compile), and every number token the lexer hands to the parser
\* is an optional "-", digits, and optionally a "." with at least one digit
\* after it: a "." with no digit after it is not part of the number token.
NumberLiterals ==
    /\ source \in {"-(a)", "-a", "- 1"} =>
           compiled.status # "ok"
             /\ (compiled.status = "thrown" =>
                    compiled.error = CelError("Unexpected character '-'", 0))
    /\ parser.cur.type = "number" => IsNumberText(parser.cur.text)

\* the ids of the entries of a trace
TraceIds(tr) == {tr[i].id : i \in 1..Len(tr)}
\* the value the trace holds for node e
TraceValue(e, tr) == tr[CHOOSE i \in 1..Len(tr) : tr[i].id = e.id].value

\* the ids of the nodes of a tree
RECURSIVE TreeIds(_)
TreeIds(e) == {e.id} \cup UNION {TreeIds(Children(e)[i]) : i \in 1..Len(Children(e))}

\* the children an evaluation of e evaluates: all of them, but of && only
\* the left when it is falsy, of || only the left when it is truthy, of a
\* ternary the condition and the branch its truthiness selects, of a call
\* the receiver of a member callee and the arguments.  The value of the left
\* operand or condition is read from the trace; while the trace has none,
\* nothing after it is due.
Due(e, tr) ==
    CASE e.kind = "bin" /\ e.op \in {"&&", "||"} ->
           IF e.left.id \notin TraceIds(tr) THEN <<e.left>>
           ELSE IF (TraceValue(e.left, tr) \in Falsy) = (e.op = "||")
           THEN <<e.left, e.right>>
           ELSE <<e.left>>
      [] e.kind = "ternary" ->
           IF e.cond.id \notin TraceIds(tr) THEN <<e.cond>>
           ELSE IF TraceValue(e.cond, tr) \in Falsy THEN <<e.cond, e.elseExpr>>
           ELSE <<e.cond, e.thenExpr>>
      [] e.kind = "call" ->
           (IF e.callee.kind = "get" THEN <<e.callee.obj>> ELSE <<>>) \o e.args
      [] OTHER -> Children(e)

\* the ids of the nodes an evaluation of e evaluates
RECURSIVE DueIds(_, _)
DueIds(e, tr) == {e.id} \cup UNION {DueIds(Due(e, tr)[i], tr) : i \in 1..Len(Due(e, tr))}

\* every entry of the trace comes after the entries of the nodes below its
\* node
RECURSIVE PostOrder(_, _)
PostOrder(e, tr) ==
    /\ \A i, j \in 1..Len(tr) :
           (tr[j].id = e.id /\ tr[i].id \in TreeIds(e) \ {e.id}) => i < j
    /\ \A k \in 1..Len(Children(e)) : PostOrder(Children(e)[k], tr)

\* an explain call has just come back: st holds the trace it built
ExplainOver == mode = "idle" /\ calls # <<>> /\ LastCall.mode = "explain"

\* C22: in the trace an explain call has built when it returns or raises
\* (entries are only ever appended), the entry of a node comes after the
\* entries of the nodes below it, and only nodes that were due for
\* evaluation have entries: of a ternary the condition and the one branch
\* selected, of a short-circuited && or || not the right operand.  A
\* returned trace that did not reach maxTraceEntries is the trace built and
\* has an entry for every node that was due.
TraceOrder ==
    /\ ExplainOver =>
           /\ PostOrder(prog.ast, st.trace)
           /\ TraceIds(st.trace) \subseteq DueIds(prog.ast, st.trace)
    /\ (ExplainOver /\ LastCall.outcome.status = "returned") =>
           /\ LastCall.outcome.trace = st.trace
           /\ Len(st.trace) < prog.opts.maxTraceEntries =>
                  TraceIds(st.trace) = DueIds(prog.ast, st.trace)

\* explain returned full traces of a ternary that took its else branch, of
\* an || that skipped its right operand and of an && that evaluated it
TraceOrderWitness ==
    \E c \in Calls :
        /\ c.mode = "explain" /\ c.outcome.status = "returned"
        /\ c.prog.source = "a ? lower(lower(s)) : 1"
        /\ c.ctx = SparseContext
        /\ Len(c.outcome.trace) = 3
        /\ c.outcome.trace[3].kind = "ternary"

TraceOrderShortCircuitWitness ==
    \E c \in Calls :
        /\ c.mode = "explain" /\ c.outcome.status = "returned"
        /\ c.prog.ast.kind = "bin" /\ c.prog.ast.op = "||"
        /\ c.prog.ast.right.kind = "call"
        /\ Len(c.outcome.trace) = 2
        /\ c.outcome.trace[2].id = c.prog.ast.id
        /\ c.outcome.trace[1].id = c.prog.ast.left.id

\* C23: undefined is never an element of a container an expression
\* produces: the value of an array literal and the result of collect(...)
\* hold no undefined, also when an element or argument is a missing
\* identifier or property; collect of two or more arguments returns its
\* arguments as a sequence in order.
NoAbsentInContainers ==
    /\ (Evaluated("array") \/ (Dispatched /\ done.err = NoErr
                                  /\ CalleeName(done.expr) = "collect")) =>
           /\ done.out.t = "array"
           /\ \A i \in 1..Len(done.out.v) : done.out.v[i] # Undefined
    /\ (Dispatched /\ CalleeName(done.expr) = "collect" /\ Len(DoneArgs) >= 2) =>
           done.err = NoErr /\ done.out = Arr(DoneArgs)

\* the position of node e's entry in a trace
TraceIndex(e, tr) == CHOOSE i \in 1..Len(tr) : tr[i].id = e.id

\* C24: a call through a member access r.f(args) whose receiver evaluated
\* returns or raises what f(args) does, the dispatch by name with these
\* arguments and no receiver, whatever value r has; written next to each other
\* in one array, r.f(args) and f(args) have one value; and the receiver is
\* evaluated, before the arguments.
ReceiverIgnored ==
    /\ (Dispatched /\ done.expr.callee.kind = "get") =>
           LET r == callFunction(done.expr.callee.prop, Undefined, Tail(done.vals),
                                 done.expr.pos)
           IN done.err = r.err /\ (r.err = NoErr => done.out = r.out)
    /\ (Evaluated("array") /\ Len(done.expr.items) = 2
          /\ done.expr.items[1].kind = "call" /\ done.expr.items[2].kind = "call"
          /\ done.expr.items[1].callee.kind = "get") =>
           done.out.v[1] = done.out.v[2]
    /\ (ExplainOver /\ LastCall.outcome.status = "returned"
          /\ prog.ast.kind = "call" /\ prog.ast.callee.kind = "get"
          /\ Len(st.trace) < prog.opts.maxTraceEntries) =>
           /\ prog.ast.callee.obj.id \in TraceIds(st.trace)
           /\ \A i \in 1..Len(prog.ast.args) :
                  TraceIndex(prog.ast.callee.obj, st.trace)
                    < TraceIndex(prog.ast.args[i], st.trace)

\* lower through a null receiver has returned the lower-cased argument
ReceiverIgnoredWitness ==
    /\ Dispatched /\ done.expr.callee.kind = "get" /\ done.expr.callee.prop = "lower"
    /\ done.vals = <<Null, Str(" Ab ")>>
    /\ done.out = Str(" ab ") /\ done.err = NoErr

\* a call named like a key the receiver owns has raised as the call by name does
ReceiverIgnoredOwnKeyWitness ==
    /\ Dispatched /\ done.expr.callee.kind = "get" /\ done.expr.callee.prop = "k"
    /\ done.vals[1].t = "object" /\ "k" \in DOMAIN done.vals[1].v
    /\ done.err = CelError("Function not allowed: k", done.expr.pos)

\* an operand of + as a string, null printed as the text "null"
RenderedNull(v) == IF v = Null THEN "null" ELSE JsString(v)

\* C25: + with a null operand: when the other operand is a string the
\* result is the concatenation with null rendered as the text "null"; when
\* the other operand is not a string the result is NaN (null + 1 is NaN).
NullAddition ==
    (Evaluated("bin") /\ done.expr.op = "+" /\ Null \in {done.vals[1], done.vals[2]}) =>
        /\ (done.vals[1].t = "string" \/ done.vals[2].t = "string") =>
               done.out = Str(RenderedNull(done.vals[1]) \o RenderedNull(done.vals[2]))
        /\ (done.vals[1].t # "string" /\ done.vals[2].t # "string") =>
               done.out = NaN

BinaryOps == {"||", "&&", "==", "!=", "<", "<=", ">", ">=", "+", "in"}
IsUnknownOp(e) == e.name = "CelError" /\ HasPrefix(e.message, "Unknown binary op")

\* every Binary node of the tree has one of the ten operators, every Unary
\* node has !
RECURSIVE OperatorsKnown(_)
OperatorsKnown(e) ==
    /\ e.kind = "bin" => e.op \in BinaryOps
    /\ e.kind = "unary" => e.op = "!"
    /\ \A i \in 1..Len(Children(e)) : OperatorsKnown(Children(e)[i])

\* C26: every Binary node of an AST compile returns (looked at when
\* compile returns) has an operator among ||, &&, ==, !=, <, <=, >, >=, +, in
\* and every Unary node has !; no evalExpr invocation raises 'Unknown
\* binary op' and no eval/explain call comes back with it.
NoUnknownOperator ==
    /\ (compiled.status = "ok" /\ calls = <<>> /\ mode = "idle") =>
           OperatorsKnown(compiled.prog.ast)
    /\ (done.expr.kind = "bin") => ~IsUnknownOp(done.err)
    /\ (mode = "idle" /\ calls # <<>> /\ LastCall.outcome.status = "thrown") =>
           ~IsUnknownOp(LastCall.outcome.error)

\* a program with &&, ==, <, + and ! has been compiled and has returned
NoUnknownOperatorWitness ==
    /\ source = "a && b == z < 1 + !o.k" /\ compiled.status = "ok"
    /\ compiled.prog.ast.op = "&&" /\ compiled.prog.ast.right.op = "=="
    /\ compiled.prog.ast.right.right.op = "<"
    /\ compiled.prog.ast.right.right.right.op = "+"
    /\ compiled.prog.ast.right.right.right.right.op = "!"
    /\ \E c \in Calls : c.outcome.status = "returned" /\ c.ctx = RichContext

\* C27: while an evaluation runs (it has not raised) the call-depth
\* counter is the number of call nodes being evaluated: 0 at the start, never
\* above maxCallDepth, and 0 when eval/explain returns; sibling calls do
\* not accumulate depth: lower(a) + lower(b) + lower(s) evaluates with
\* maxCallDepth = 1.
CallDepthBookkeeping ==
    /\ Running =>
           /\ st.callDepth = ActiveCalls
           /\ st.callDepth <= st.opts.maxCallDepth
    /\ (Running /\ stack = <<Frame(prog.ast)>>) => st.callDepth = 0
    /\ (mode = "idle" /\ calls # <<>> /\ LastCall.outcome.status = "returned") =>
           st.callDepth = 0
    /\ (mode = "idle" /\ calls # <<>>
          /\ prog.source = "lower(a) + lower(b) + lower(s)"
          /\ prog.opts.maxCallDepth >= 1) =>
           LastCall.outcome.status = "returned"

\* three sibling calls have returned under maxCallDepth = 1
CallDepthBookkeepingWitness ==
    /\ mode = "idle" /\ calls # <<>>
    /\ prog.source = "lower(a) + lower(b) + lower(s)" /\ prog.opts.maxCallDepth = 1
    /\ LastCall.outcome.status = "returned" /\ st.callDepth = 0

\* the counter stands at 2 inside a call nested in a call
CallDepthBookkeepingNestedWitness ==
    /\ Running /\ st.callDepth = 2 /\ ActiveCalls = 2
    /\ Top.expr.kind = "ident"

\* the id of every node is greater than the ids of the nodes below it
RECURSIVE IdsAscend(_)
IdsAscend(e) ==
    \A i \in 1..Len(Children(e)) :
        /\ \A d \in TreeIds(Children(e)[i]) : d < e.id
        /\ IdsAscend(Children(e)[i])

\* C28: the nodes of a compiled AST (looked at when compile returns) have
\* distinct ids, each greater than the ids of the nodes below it; the ids of
\* an explain trace are strictly increasing at every step, so none is
\* recorded twice; a trace explain has just returned that did not reach
\* maxTraceEntries ends with the entry of the root node, whose value is the
\* returned result.
NodeIdsAndTraceOrder ==
    /\ (compiled.status = "ok" /\ calls = <<>> /\ mode = "idle") =>
           /\ Cardinality(TreeIds(compiled.prog.ast)) = NodeCount(compiled.prog.ast)
           /\ IdsAscend(compiled.prog.ast)
    /\ st.hasTrace =>
           \A i, j \in 1..Len(st.trace) : i < j => st.trace[i].id < st.trace[j].id
    /\ (ExplainOver /\ LastCall.outcome.status = "returned"
          /\ Len(LastCall.outcome.trace) < prog.opts.maxTraceEntries) =>
           /\ Len(LastCall.outcome.trace) > 0
           /\ LastCall.outcome.trace[Len(LastCall.outcome.trace)].id = prog.ast.id
           /\ LastCall.outcome.trace[Len(LastCall.outcome.trace)].value
                = LastCall.outcome.result

\* explain of a nine-node sum has returned a trace of nine entries, the
\* last one the root with the result
NodeIdsAndTraceOrderWitness ==
    \E c \in Calls :
        /\ c.mode = "explain" /\ c.outcome.status = "returned"
        /\ c.prog.source = "1 + 2 + 3 + 4 + 5"
        /\ Len(c.outcome.trace) = 9
        /\ c.outcome.trace[9].id = 9 /\ c.prog.ast.id = 9
        /\ c.outcome.trace[9].value = Num(15) /\ c.outcome.result = Num(15)

====
